---- MODULE Spec2Model ----
(***************************************************************************)
(* Logical-property and statistics derivation for the relational operators *)
(* of pkg/sql/opt (ops/relational.opt), as recorded by the optimizer's     *)
(* statistics tests (memo/testdata/stats/set), and the password prompt of  *)
(* pkg/security/password.go.                                               *)
(*                                                                         *)
(* Statistics are float64 in the program.  Every rule modelled here is     *)
(* rational arithmetic, so a number is an exact fraction <<num, den>> with *)
(* den > 0 in lowest terms; 12.5 is <<25, 2>>.                             *)
(***************************************************************************)
EXTENDS Integers, Sequences, FiniteSets

(***************************************************************************)
(* Bounds of the model.                                                    *)
(***************************************************************************)
\* largest row count of a generated (non-recorded) table statistic
MaxRows == 2
\* largest integral exponent n/d for which ApplySelectivity's power is taken
MaxPow == 2
\* largest number of aggregations of a grouping operator
MaxAggs == 2
\* largest constant of a LIMIT
MaxLimit == 3
\* largest length of a password typed at the prompt
MaxLen == 2

(***************************************************************************)
(* Exact fractions.                                                        *)
(***************************************************************************)
Abs(i) == IF i < 0 THEN -i ELSE i

RECURSIVE GCD(_, _)
GCD(i, j) == IF j = 0 THEN Abs(i) ELSE GCD(j, i % j)

RNorm(q) ==
  LET g == GCD(q[1], q[2])
  IN  IF q[1] = 0 THEN <<0, 1>> ELSE <<q[1] \div g, q[2] \div g>>

R(i) == <<i, 1>>
RZero == <<0, 1>>
ROne == <<1, 1>>

RAdd(p, q) ==
  LET g == GCD(p[2], q[2])
  IN  RNorm(<<p[1] * (q[2] \div g) + q[1] * (p[2] \div g), (p[2] \div g) * q[2]>>)

RNeg(p) == <<-p[1], p[2]>>
RSub(p, q) == RAdd(p, RNeg(q))

\* cross-cancel before multiplying, so that intermediate products stay small
RMul(p, q) ==
  LET g1 == IF p[1] = 0 THEN 1 ELSE GCD(p[1], q[2])
      g2 == IF q[1] = 0 THEN 1 ELSE GCD(q[1], p[2])
  IN  RNorm(<<(p[1] \div g1) * (q[1] \div g2), (p[2] \div g2) * (q[2] \div g1)>>)

\* q # 0
RDiv(p, q) == RMul(p, IF q[1] < 0 THEN <<-q[2], -q[1]>> ELSE <<q[2], q[1]>>)

RLe(p, q) == RSub(p, q)[1] <= 0
RLt(p, q) == RSub(p, q)[1] < 0
\* the program's min: "if a < b return a else b"
RMin(p, q) == IF RLt(p, q) THEN p ELSE q
RIsInt(p) == p[2] = 1

RECURSIVE RPow(_, _)
RPow(p, e) == IF e = 0 THEN ROne ELSE RMul(p, RPow(p, e - 1))


(***************************************************************************)
(* Catalog: the three test tables (exec-ddl CREATE TABLE).                 *)
(***************************************************************************)
Tables == {"a", "b", "c"}

\* the columns of a table, by ordinal
TableColumns(t) ==
  IF t = "a" THEN <<"x", "y", "s">> ELSE <<"x", "z", "s", "rowid">>

\* the columns declared NOT NULL (primary key columns included)
TableNotNull(t) == IF t = "a" THEN {"x"} ELSE {"z", "rowid"}

\* the columns of the primary index
TablePrimaryKey(t) == IF t = "a" THEN {"x"} ELSE {"rowid"}

(***************************************************************************)
(* Statistics store.  A table's statistics are the records of its last     *)
(* ALTER TABLE ... INJECT STATISTICS; created_at is in minutes.            *)
(***************************************************************************)
Stat(cs, at, rc, dc, nc) ==
  [columns |-> cs, created_at |-> at, row_count |-> rc,
   distinct_count |-> dc, null_count |-> nc]

\* the statistics injected before the first query
InjectedFirst ==
  [a |-> { Stat({"x"}, 60, 5000, 5000, 0),
           Stat({"y"}, 90, 5000, 400, 0),
           Stat({"s"}, 90, 5000, 10, 0),
           Stat({"y", "s"}, 90, 5000, 1000, 0) },
   b |-> { Stat({"x"}, 60, 10000, 5000, 0),
           Stat({"z"}, 90, 10000, 100, 0),
           Stat({"s"}, 90, 10000, 10, 0),
           Stat({"z", "s"}, 100, 10000, 200, 0),
           Stat({"rowid"}, 90, 10000, 10000, 0) },
   c |-> { Stat({"x"}, 60, 10000, 5000, 0),
           Stat({"z"}, 90, 10000, 100, 0),
           Stat({"s"}, 90, 10000, 10, 0) }]

\* "Bump up null counts": b and c are injected again, a is left alone
InjectedBumped ==
  [a |-> InjectedFirst.a,
   b |-> { Stat({"x"}, 60, 10000, 5000, 2500),
           Stat({"z"}, 90, 10000, 100, 0),
           Stat({"s"}, 90, 10000, 10, 5000),
           Stat({"rowid"}, 90, 10000, 10000, 0) },
   c |-> { Stat({"x"}, 60, 10000, 5000, 1000),
           Stat({"z"}, 90, 10000, 100, 0),
           Stat({"s"}, 90, 10000, 10, 7500) }]

\* the most recent of a set of statistics records
Latest(recs) == CHOOSE r \in recs : \A o \in recs : o.created_at <= r.created_at

\* the relation's row count: that of its most recent statistic
TableRowCount(recs) == IF recs = {} THEN 0 ELSE Latest(recs).row_count

\* the single-column statistic of column n
OneColumn(recs, n) == Latest({r \in recs : r.columns = {n}})

\* Stands for a statistic the model does not compute: of a table column
\* without an injected statistic, and of a filtered column set whose
\* ApplySelectivity exponent is not a small whole number (see PowOk).
NoStat == [distinct |-> <<-1, 1>>, null |-> <<-1, 1>>]

\* faulty variant: the smallest of the single-column distinct counts of ns
RECURSIVE DistinctProductSmallest(_, _, _)
DistinctProductSmallest(recs, ns, rows) ==
  IF ns = {} THEN R(rows)
  ELSE LET n == CHOOSE x \in ns : TRUE
       IN  RMin(R(OneColumn(recs, n).distinct_count),
                DistinctProductSmallest(recs, ns \ {n}, rows))

\* The product of the single-column distinct counts of ns, capped by the row
\* count.  Every factor is at least 1 when the table has rows, so capping
\* after each factor gives min(product, rows).
RECURSIVE DistinctProduct(_, _, _)
DistinctProduct(recs, ns, rows) ==
  IF ns = {} THEN ROne
  ELSE LET n == CHOOSE x \in ns : TRUE
       IN  RMin(RMul(R(OneColumn(recs, n).distinct_count),
                     DistinctProduct(recs, ns \ {n}, rows)),
                R(rows))

\* The fraction of rows in which no column of ns is null (rows > 0).
RECURSIVE NotNullFraction(_, _, _)
NotNullFraction(recs, ns, rows) ==
  IF ns = {} THEN ROne
  ELSE LET n == CHOOSE x \in ns : TRUE
       IN  RMul(RSub(ROne, RDiv(R(OneColumn(recs, n).null_count), R(rows))),
                NotNullFraction(recs, ns \ {n}, rows))

\* faulty variant: a statistic of several columns is not looked up, the
\* single-column statistics are always combined
TableColStatCombined(recs, ns) ==
  LET rows  == TableRowCount(recs)
      exact == {r \in recs : r.columns = ns /\ Cardinality(ns) = 1}
  IN  IF exact # {}
        THEN [distinct |-> R(Latest(exact).distinct_count),
              null |-> R(Latest(exact).null_count)]
      ELSE IF \E n \in ns : \A r \in recs : r.columns # {n}
        THEN NoStat
      ELSE IF rows = 0
        THEN [distinct |-> RZero, null |-> RZero]
      ELSE [distinct |-> DistinctProduct(recs, ns, rows),
            null |-> RMul(R(rows),
                          RSub(ROne, NotNullFraction(recs, ns, rows)))]

\* The statistic of the column set ns (names) of a table: [distinct, null].
\* An exact match is used as it is; otherwise the single-column statistics
\* are combined as if independent: the distinct counts multiply, capped by
\* the row count, and a row is counted null when any column of ns is null.
TableColStat(recs, ns) ==
  LET rows  == TableRowCount(recs)
      exact == {r \in recs : r.columns = ns}
  IN  IF exact # {}
        THEN [distinct |-> R(Latest(exact).distinct_count),
              null |-> R(Latest(exact).null_count)]
      ELSE IF \E n \in ns : \A r \in recs : r.columns # {n}
        THEN NoStat
      ELSE IF rows = 0
        THEN [distinct |-> RZero, null |-> RZero]
      ELSE [distinct |-> DistinctProduct(recs, ns, rows),
            null |-> RMul(R(rows),
                          RSub(ROne, NotNullFraction(recs, ns, rows)))]

(***************************************************************************)
(* Operators (ops/relational.opt) and column lists.                        *)
(***************************************************************************)
\* the set operators, all sharing SetPrivate
SetOps == {"union", "intersect", "except",
           "union-all", "intersect-all", "except-all"}
\* the bag operators: duplicate rows are not discarded
AllOps == {"union-all", "intersect-all", "except-all"}

\* ColList.ToSet
ToSet(list) == {list[k] : k \in 1..Len(list)}

\* opt.TranslateColSet: the columns of `to` at the positions where `from`
\* holds a column of S
TranslateColSet(S, from, to) == {to[k] : k \in {j \in 1..Len(from) : from[j] \in S}}

(***************************************************************************)
(* Expression nodes.  A memo is a sequence of nodes in the order they were *)
(* built (children first); left and right are indices into it, 0 for none. *)
(*   scan     table, base (column id of ordinal 1 is base + 1), recs (the  *)
(*            table's statistics as read when the scan was built)          *)
(*   select   left, filter (the column compared to a constant),            *)
(*            selectivity                                                  *)
(*   project  left; cols is the Passthrough set                            *)
(*   set ops  left, right, lcols, rcols, ocols (SetPrivate)                *)
(*   scalar-group-by  left, grouping (GroupingPrivate.GroupingCols); cols  *)
(*            are the columns of the aggregations                          *)
(*   limit    left, limit (the Limit expression: a constant with a value,  *)
(*            or not a constant)                                           *)
(* Logical properties of every node: cols, notnull, rows, stats (the        *)
(* column statistics requested so far, by column set), keys, fds (pairs    *)
(* <<determinant, dependents>>).                                           *)
(***************************************************************************)
NoStats == [S \in {} |-> 0]

Node(op, left, right, cols, notnull, rows, keys, fds) ==
  [op |-> op, left |-> left, right |-> right,
   table |-> "", base |-> 0, recs |-> {},
   filter |-> 0, selectivity |-> ROne,
   lcols |-> <<>>, rcols |-> <<>>, ocols |-> <<>>,
   grouping |-> {}, limit |-> [const |-> FALSE, value |-> 0],
   cols |-> cols, notnull |-> notnull, rows |-> rows, stats |-> NoStats,
   keys |-> keys, fds |-> fds]

\* the column ids of the table columns named in ns
IdsOf(t, base, ns) ==
  {base + j : j \in {k \in 1..Len(TableColumns(t)) : TableColumns(t)[k] \in ns}}
\* the names of the table columns with ids in S
NamesOf(t, base, S) == {TableColumns(t)[c - base] : c \in S}

(***************************************************************************)
(* Column statistics.                                                      *)
(***************************************************************************)
\* faulty variant: the counts are left as they are
FinalizeUnclamped(st, rows) == st

\* the distinct and null counts are no larger than the row count
FinalizeFromRowCount(st, rows) ==
  [distinct |-> RMin(st.distinct, rows), null |-> RMin(st.null, rows)]

\* ColumnStatistic.ApplySelectivity takes the power (1 - selectivity)^(n/d).
\* The model computes it when the exponent n/d is 1, and when it is a whole
\* number up to MaxPow over an input of the size of generated tables (at most
\* two of them, united); other statistics of a filtered input are NoStat.
PowOk(st, selectivity, inputRows) ==
  \/ selectivity = ROne
  \/ st.distinct = RZero
  \/ LET e == RDiv(inputRows, st.distinct)
     IN  /\ RIsInt(e)
         /\ \/ e[1] = 1
            \/ e[1] <= MaxPow /\ RLe(inputRows, R(2 * MaxRows))

\* ColumnStatistic.ApplySelectivity: each distinct value appears n/d times,
\* the chance that all of them are filtered out is (1 - selectivity)^(n/d)
ApplySelectivity(st, selectivity, inputRows) ==
  IF selectivity = ROne \/ st.distinct = RZero THEN st
  ELSE LET e == RDiv(inputRows, st.distinct)[1]
           d == st.distinct
       IN  [distinct |-> RMul(d, RSub(ROne, RPow(RSub(ROne, selectivity), e))),
            null |-> RMul(st.null, selectivity)]

\* The null count one input contributes to Union, Intersect or Except, which
\* faulty variant: the null rows of a single output column shrink like those
\* of several
DedupedNullCountShrunk(st, rows, nOut) ==
  IF rows = RZero THEN RZero
  ELSE RMul(RDiv(RAdd(st.distinct, ROne), rows), st.null)

\* discard duplicate rows: a single output column keeps at most one NULL;
\* otherwise the input's null rows shrink as its rows shrink to its
\* distinct rows (plus the NULL group).
DedupedNullCount(st, rows, nOut) ==
  IF nOut = 1 THEN RMin(ROne, st.null)
  ELSE IF rows = RZero THEN RZero
  ELSE RMul(RDiv(RAdd(st.distinct, ROne), rows), st.null)

\* faulty variant: UnionAll forgets the right input
SetRowCountUnionLeft(op, lrows, rrows) ==
  CASE op \in {"union", "union-all", "except", "except-all"} -> lrows
    [] op \in {"intersect", "intersect-all"} -> RMin(lrows, rrows)

\* faulty variant: IntersectAll copies the left input
SetRowCountIntersectLeft(op, lrows, rrows) ==
  CASE op \in {"union", "union-all"} -> RAdd(lrows, rrows)
    [] op \in {"intersect", "intersect-all", "except", "except-all"} -> lrows

\* faulty variant: ExceptAll is bounded by the right input
SetRowCountExceptMin(op, lrows, rrows) ==
  CASE op \in {"union", "union-all"} -> RAdd(lrows, rrows)
    [] op \in {"intersect", "intersect-all", "except", "except-all"} ->
         RMin(lrows, rrows)

\* the row count of a bag operator
SetRowCount(op, lrows, rrows) ==
  CASE op \in {"union", "union-all"} -> RAdd(lrows, rrows)
    [] op \in {"intersect", "intersect-all"} -> RMin(lrows, rrows)
    [] op \in {"except", "except-all"} -> lrows

\* faulty variant: Union takes the larger distinct count
SetColStatUnionMax(op, ls, rs, lrows, rrows, nOut) ==
  LET ln == IF op \in AllOps THEN ls.null ELSE DedupedNullCount(ls, lrows, nOut)
      rn == IF op \in AllOps THEN rs.null ELSE DedupedNullCount(rs, rrows, nOut)
  IN  CASE op = "union" ->
             [distinct |-> IF RLt(ls.distinct, rs.distinct)
                             THEN rs.distinct ELSE ls.distinct,
              null |-> RAdd(ln, rn)]
        [] op = "union-all" ->
             [distinct |-> RAdd(ls.distinct, rs.distinct), null |-> RAdd(ln, rn)]
        [] op \in {"intersect", "intersect-all"} ->
             [distinct |-> RMin(ls.distinct, rs.distinct), null |-> RMin(ln, rn)]
        [] op \in {"except", "except-all"} ->
             [distinct |-> ls.distinct, null |-> ln]

\* faulty variant: Intersect copies the left distinct count
SetColStatIntersectLeft(op, ls, rs, lrows, rrows, nOut) ==
  LET ln == IF op \in AllOps THEN ls.null ELSE DedupedNullCount(ls, lrows, nOut)
      rn == IF op \in AllOps THEN rs.null ELSE DedupedNullCount(rs, rrows, nOut)
  IN  CASE op \in {"union", "union-all"} ->
             [distinct |-> RAdd(ls.distinct, rs.distinct), null |-> RAdd(ln, rn)]
        [] op = "intersect" ->
             [distinct |-> ls.distinct, null |-> RMin(ln, rn)]
        [] op = "intersect-all" ->
             [distinct |-> RMin(ls.distinct, rs.distinct), null |-> RMin(ln, rn)]
        [] op \in {"except", "except-all"} ->
             [distinct |-> ls.distinct, null |-> ln]

\* faulty variant: Except is bounded by the right distinct count
SetColStatExceptMin(op, ls, rs, lrows, rrows, nOut) ==
  LET ln == IF op \in AllOps THEN ls.null ELSE DedupedNullCount(ls, lrows, nOut)
      rn == IF op \in AllOps THEN rs.null ELSE DedupedNullCount(rs, rrows, nOut)
  IN  CASE op \in {"union", "union-all"} ->
             [distinct |-> RAdd(ls.distinct, rs.distinct), null |-> RAdd(ln, rn)]
        [] op \in {"intersect", "intersect-all", "except"} ->
             [distinct |-> RMin(ls.distinct, rs.distinct), null |-> RMin(ln, rn)]
        [] op = "except-all" ->
             [distinct |-> ls.distinct, null |-> ln]

\* faulty variant: UnionAll counts the nulls of the left input only
SetColStatUnionAllLeftNulls(op, ls, rs, lrows, rrows, nOut) ==
  LET ln == IF op \in AllOps THEN ls.null ELSE DedupedNullCount(ls, lrows, nOut)
      rn == IF op \in AllOps THEN rs.null ELSE DedupedNullCount(rs, rrows, nOut)
  IN  CASE op = "union" ->
             [distinct |-> RAdd(ls.distinct, rs.distinct), null |-> RAdd(ln, rn)]
        [] op = "union-all" ->
             [distinct |-> RAdd(ls.distinct, rs.distinct), null |-> ln]
        [] op \in {"intersect", "intersect-all"} ->
             [distinct |-> RMin(ls.distinct, rs.distinct), null |-> RMin(ln, rn)]
        [] op \in {"except", "except-all"} ->
             [distinct |-> ls.distinct, null |-> ln]

\* faulty variant: IntersectAll keeps the null count of the left input
SetColStatIntersectAllLeftNulls(op, ls, rs, lrows, rrows, nOut) ==
  LET ln == IF op \in AllOps THEN ls.null ELSE DedupedNullCount(ls, lrows, nOut)
      rn == IF op \in AllOps THEN rs.null ELSE DedupedNullCount(rs, rrows, nOut)
  IN  CASE op \in {"union", "union-all"} ->
             [distinct |-> RAdd(ls.distinct, rs.distinct), null |-> RAdd(ln, rn)]
        [] op = "intersect" ->
             [distinct |-> RMin(ls.distinct, rs.distinct), null |-> RMin(ln, rn)]
        [] op = "intersect-all" ->
             [distinct |-> RMin(ls.distinct, rs.distinct), null |-> ln]
        [] op \in {"except", "except-all"} ->
             [distinct |-> ls.distinct, null |-> ln]

\* faulty variant: Union keeps the null fraction of the bag union and applies
\* it to the summed distinct count
SetColStatNullFraction(op, ls, rs, lrows, rrows, nOut) ==
  LET ln == IF op \in AllOps THEN ls.null ELSE DedupedNullCount(ls, lrows, nOut)
      rn == IF op \in AllOps THEN rs.null ELSE DedupedNullCount(rs, rrows, nOut)
      all == RAdd(lrows, rrows)
      d == RAdd(ls.distinct, rs.distinct)
  IN  CASE op = "union" ->
             [distinct |-> d,
              null |-> IF all = RZero THEN RZero
                       ELSE RMul(RDiv(RAdd(ls.null, rs.null), all), d)]
        [] op = "union-all" ->
             [distinct |-> d, null |-> RAdd(ln, rn)]
        [] op \in {"intersect", "intersect-all"} ->
             [distinct |-> RMin(ls.distinct, rs.distinct), null |-> RMin(ln, rn)]
        [] op \in {"except", "except-all"} ->
             [distinct |-> ls.distinct, null |-> ln]

\* the statistic of a column set of a set operator, from the statistics of
\* the corresponding column sets of its inputs
SetColStat(op, ls, rs, lrows, rrows, nOut) ==
  LET ln == IF op \in AllOps THEN ls.null ELSE DedupedNullCount(ls, lrows, nOut)
      rn == IF op \in AllOps THEN rs.null ELSE DedupedNullCount(rs, rrows, nOut)
  IN  CASE op \in {"union", "union-all"} ->
             [distinct |-> RAdd(ls.distinct, rs.distinct), null |-> RAdd(ln, rn)]
        [] op \in {"intersect", "intersect-all"} ->
             [distinct |-> RMin(ls.distinct, rs.distinct), null |-> RMin(ln, rn)]
        [] op \in {"except", "except-all"} ->
             [distinct |-> ls.distinct, null |-> ln]

\* the operators whose column statistics the model does not compute
NoColStatOps == {"scalar-group-by", "limit"}

\* The statistic [distinct, null] of the column set S of node i of memo m.
RECURSIVE DeriveColStat(_, _, _)
DeriveColStat(m, i, S) ==
  LET n == m[i] IN
  IF S \in DOMAIN n.stats THEN n.stats[S]
  ELSE IF n.op = "scan" THEN
    LET ts == TableColStat(n.recs, NamesOf(n.table, n.base, S))
    IN  IF ts = NoStat THEN NoStat
        ELSE FinalizeFromRowCount(ts, n.rows)
  ELSE IF n.op = "project" THEN
    LET in == DeriveColStat(m, n.left, S)
    IN  IF in = NoStat THEN NoStat ELSE FinalizeFromRowCount(in, n.rows)
  ELSE IF n.op \in NoColStatOps THEN NoStat
  ELSE IF n.op = "select" THEN
    LET in == DeriveColStat(m, n.left, S)
    IN  IF in = NoStat THEN NoStat
        ELSE IF ~PowOk(in, n.selectivity, m[n.left].rows) THEN NoStat
        ELSE FinalizeFromRowCount(
               ApplySelectivity(in, n.selectivity, m[n.left].rows), n.rows)
  ELSE
    LET ls == DeriveColStat(m, n.left, TranslateColSet(S, n.ocols, n.lcols))
        rs == DeriveColStat(m, n.right, TranslateColSet(S, n.ocols, n.rcols))
    IN  IF ls = NoStat \/ rs = NoStat THEN NoStat
        ELSE FinalizeFromRowCount(
               SetColStat(n.op, ls, rs, m[n.left].rows, m[n.right].rows,
                          Cardinality(n.cols)),
               n.rows)

\* f with x mapped to v
Put(f, x, v) == [y \in DOMAIN f \cup {x} |-> IF y = x THEN v ELSE f[y]]

\* The memo after node i was asked for the statistic of S: the statistic is
\* added to the node's cache, and so are the statistics it asked its inputs
\* for.  Asked only when DeriveColStat(m, i, S) # NoStat.
RECURSIVE RequestColStat(_, _, _)
RequestColStat(m, i, S) ==
  LET n == m[i] IN
  IF S \in DOMAIN n.stats THEN m
  ELSE IF n.op = "scan" THEN
    [m EXCEPT ![i].stats = Put(@, S, DeriveColStat(m, i, S))]
  ELSE IF n.op \in {"project", "select"} THEN
    LET m1 == RequestColStat(m, n.left, S)
    IN  [m1 EXCEPT ![i].stats = Put(@, S, DeriveColStat(m1, i, S))]
  ELSE
    LET m1 == RequestColStat(m, n.left, TranslateColSet(S, n.ocols, n.lcols))
        m2 == RequestColStat(m1, n.right, TranslateColSet(S, n.ocols, n.rcols))
    IN  [m2 EXCEPT ![i].stats = Put(@, S, DeriveColStat(m2, i, S))]

\* the memo after node i was asked for the statistics of Ss[1], Ss[2], ...
RECURSIVE RequestColStats(_, _, _)
RequestColStats(m, i, Ss) ==
  IF Ss = <<>> THEN m
  ELSE RequestColStats(RequestColStat(m, i, Head(Ss)), i, Tail(Ss))

(***************************************************************************)
(* Building the logical properties of a node from those of its inputs.     *)
(***************************************************************************)
\* Scan of table t, whose columns get the ids base+1, base+2, ...; recs are
\* the table's statistics.
ScanNode(t, base, recs) ==
  LET cols == IdsOf(t, base, ToSet(TableColumns(t)))
      key  == IdsOf(t, base, TablePrimaryKey(t))
  IN  [Node("scan", 0, 0, cols, IdsOf(t, base, TableNotNull(t)),
            R(TableRowCount(recs)), {key}, {<<key, cols \ key>>})
        EXCEPT !.table = t, !.base = base, !.recs = recs]

\* the selectivity of "c = constant": one of the distinct values of c, and
\* at most 1
EqualitySelectivity(st) ==
  IF st.distinct = RZero THEN ROne ELSE RMin(ROne, RDiv(ROne, st.distinct))

\* faulty variant: the dependencies are left as they are
AddConstantKept(fds, c) == fds

\* the dependencies after column c became constant
AddConstant(fds, c) ==
  {<<fd[1], fd[2] \ {c}>> : fd \in {f \in fds : f[2] \ {c} # {}}} \cup {<<{}, {c}>>}

\* Select with the filter "c = constant" over node in, whose statistic of
\* {c} is st.
SelectNode(m, in, c, st) ==
  LET sel  == EqualitySelectivity(st)
      rows == RMul(m[in].rows, sel)
  IN  [Node("select", in, 0, m[in].cols, m[in].notnull \cup {c}, rows,
            m[in].keys, AddConstant(m[in].fds, c))
        EXCEPT !.filter = c, !.selectivity = sel,
               !.stats = Put(NoStats, {c},
                             FinalizeFromRowCount([distinct |-> ROne, null |-> RZero],
                                                  rows))]

\* the dependencies that survive a projection to the columns P
ProjectFDs(fds, P) ==
  {<<fd[1], fd[2] \cap P>> : fd \in {f \in fds : f[1] \subseteq P /\ f[2] \cap P # {}}}

\* faulty variant: the input's keys are kept whatever is projected
ProjectNodeKeepKeys(m, in, P) ==
  Node("project", in, 0, P, m[in].notnull \cap P, m[in].rows,
       m[in].keys, ProjectFDs(m[in].fds, P))

\* faulty variant: every projected column is taken to be nullable
ProjectNodeNullable(m, in, P) ==
  Node("project", in, 0, P, {}, m[in].rows,
       {K \in m[in].keys : K \subseteq P}, ProjectFDs(m[in].fds, P))

\* Project of node in that passes the columns P through
ProjectNode(m, in, P) ==
  Node("project", in, 0, P, m[in].notnull \cap P, m[in].rows,
       {K \in m[in].keys : K \subseteq P}, ProjectFDs(m[in].fds, P))

\* faulty variant: as a GroupBy without grouping columns, which has no row
\* when its input has none
ScalarGroupByAsGroupBy(m, in, aggs) ==
  [Node("scalar-group-by", in, 0, aggs, {},
        IF m[in].rows = RZero THEN RZero ELSE ROne, {{}}, {<<{}, aggs>>})
    EXCEPT !.grouping = {}]

\* ScalarGroupBy of node in, whose aggregations put out the columns aggs:
\* one row whatever the input, no grouping columns; the empty column set is
\* a key, and every column is constant
ScalarGroupByNode(m, in, aggs) ==
  [Node("scalar-group-by", in, 0, aggs, {}, ROne, {{}}, {<<{}, aggs>>})
    EXCEPT !.grouping = {}]

\* the operators that group their input on a set of grouping columns
GroupingOps == {"group-by", "distinct-on"}

\* faulty variant: as many rows as the input has
GroupingNodeInputRows(m, op, in, G, aggs) ==
  [Node(op, in, 0, G \cup aggs, m[in].notnull \cap (G \cup aggs),
        m[in].rows, {G}, {})
    EXCEPT !.grouping = G]

\* GroupBy or DistinctOn of node in on the grouping columns G, with the
\* aggregation output columns aggs: one row for each distinct value of G in
\* the input, and G is a key
GroupingNode(m, op, in, G, aggs) ==
  [Node(op, in, 0, G \cup aggs, m[in].notnull \cap (G \cup aggs),
        DeriveColStat(m, in, G).distinct, {G}, {})
    EXCEPT !.grouping = G]

\* faulty variant: LIMIT 0 leaves no row
LimitNodeZeroRows(m, in, e) ==
  [Node("limit", in, 0, m[in].cols, m[in].notnull,
        IF e.const THEN RMin(R(e.value), m[in].rows) ELSE m[in].rows,
        m[in].keys, m[in].fds)
    EXCEPT !.limit = e]

\* Limit of node in by the expression e: at most e.value rows when e is a
\* positive constant; the input's row count when the limit is zero or not
\* known
LimitNode(m, in, e) ==
  [Node("limit", in, 0, m[in].cols, m[in].notnull,
        IF e.const /\ e.value > 0 THEN RMin(R(e.value), m[in].rows)
        ELSE m[in].rows,
        m[in].keys, m[in].fds)
    EXCEPT !.limit = e]

\* faulty variant: an output column is not null when either input column is
SetNotNullEither(l, r, lcols, rcols, ocols) ==
  {ocols[k] : k \in {j \in 1..Len(ocols) :
                       lcols[j] \in l.notnull \/ rcols[j] \in r.notnull}}

\* output column k is not null when it is not null in both inputs
SetNotNull(l, r, lcols, rcols, ocols) ==
  {ocols[k] : k \in {j \in 1..Len(ocols) :
                       lcols[j] \in l.notnull /\ rcols[j] \in r.notnull}}

\* faulty variant: no set operator has a key
SetKeysNone(op, cols) == {}

\* faulty variant: the bag operators have the key too
SetKeysAll(op, cols) == {cols}

\* faulty variant: IntersectAll and ExceptAll report a key too
SetKeysLeftBags(op, cols) == IF op = "union-all" THEN {} ELSE {cols}

\* Union, Intersect and Except discard duplicates: all output columns
\* together are a key.  The bag operators have none.
SetKeys(op, cols) == IF op \in AllOps THEN {} ELSE {cols}

\* The set operator op over the nodes l and r of memo m.  For the operators
\* that discard duplicates, m holds the inputs' statistics of all left and
\* all right columns, and the row count is the distinct count of all output
\* columns.
SetNode(m, op, l, r, lcols, rcols, ocols) ==
  LET cols == ToSet(ocols)
      bag  == [Node(op, l, r, cols,
                    SetNotNull(m[l], m[r], lcols, rcols, ocols),
                    SetRowCount(op, m[l].rows, m[r].rows),
                    SetKeys(op, cols), {})
                EXCEPT !.lcols = lcols, !.rcols = rcols, !.ocols = ocols]
      st   == DeriveColStat(Append(m, bag), Len(m) + 1, cols)
  IN  IF op \in AllOps THEN bag
      ELSE [bag EXCEPT !.rows = st.distinct,
                       !.stats = Put(NoStats, cols,
                                     FinalizeFromRowCount(st, st.distinct))]

(***************************************************************************)
(* Deriving the properties of a subtree of a built memo once more: bottom   *)
(* up from the scans, which read the statistics store, every node from its *)
(* operator's own fields and the properties just derived for its inputs.   *)
(* A node is visited once, however many parents it has.                    *)
(***************************************************************************)
\* a node whose properties are not derived
Unvisited == [op |-> "unvisited"]

\* n nodes, none visited
RECURSIVE NoneVisited(_)
NoneVisited(n) == IF n = 0 THEN <<>> ELSE Append(NoneVisited(n - 1), Unvisited)

\* faulty variant: the statistic that the first derivation left at the
\* Select itself
FilterStatOfFirst(first, done, i) == DeriveColStat(first, i, {first[i].filter})

\* the statistic of the filtered column that the Select first[i] reads: that
\* of its input, as derived in done
FilterStat(first, done, i) == DeriveColStat(done, first[i].left, {first[i].filter})

\* done with the properties of node i of the memo first, and of the nodes
\* below it, derived from the statistics stats
RECURSIVE Visit(_, _, _, _)
Visit(stats, first, done, i) ==
  LET n == first[i] IN
  IF done[i].op # "unvisited" THEN done
  ELSE IF n.op = "scan" THEN
    [done EXCEPT ![i] = ScanNode(n.table, n.base, stats[n.table])]
  ELSE IF n.op \in SetOps THEN
    LET d1 == Visit(stats, first, done, n.left)
        d2 == Visit(stats, first, d1, n.right)
        d3 == IF n.op \in AllOps THEN d2
              ELSE RequestColStat(RequestColStat(d2, n.left, ToSet(n.lcols)),
                                  n.right, ToSet(n.rcols))
    IN  [d3 EXCEPT ![i] = SetNode(d3, n.op, n.left, n.right,
                                  n.lcols, n.rcols, n.ocols)]
  ELSE
    LET d1 == Visit(stats, first, done, n.left)
    IN  IF n.op = "select" THEN
          [RequestColStat(d1, n.left, {n.filter})
             EXCEPT ![i] = SelectNode(d1, n.left, n.filter,
                                      FilterStat(first, d1, i))]
        ELSE IF n.op = "project" THEN
          [d1 EXCEPT ![i] = ProjectNode(d1, n.left, n.cols)]
        ELSE IF n.op = "scalar-group-by" THEN
          [d1 EXCEPT ![i] = ScalarGroupByNode(d1, n.left, n.cols)]
        ELSE
          [d1 EXCEPT ![i] = LimitNode(d1, n.left, n.limit)]

(***************************************************************************)
(* State: the statistics store, the query's metadata (the number of column *)
(* ids handed out), the memo of the query being built, and the column sets *)
(* whose statistics were requested of the finished query (colstat=).       *)
(***************************************************************************)
VARIABLES tableStats, numCols, memo, requested

(***************************************************************************)
(* State of the operator catalog (ops/relational.opt): the number of       *)
(* definitions read so far, and the last match of a tag pattern.           *)
(***************************************************************************)
VARIABLES defined, matched

(***************************************************************************)
(* State of a call of PromptForPasswordTwice (security/password.go): pc    *)
(* (where the call is), out (what was printed), reads (the results of the  *)
(* calls of terminal.ReadPassword so far), ret and err (what the call      *)
(* returned; err "" is nil).                                               *)
(***************************************************************************)
VARIABLES prompt

(***************************************************************************)
(* State of the password hashing of security/password.go: pc, the password *)
(* p given to HashPassword with its result (hash, herr), and the password  *)
(* q given to CompareHashAndPassword with its result cerr; "" is nil.      *)
(***************************************************************************)
VARIABLES hashed

(***************************************************************************)
(* A second derivation of the logical properties of a subtree of the memo: *)
(* root is the node it started from (0 for none yet), second holds the     *)
(* properties it computed, at the indices of the memo.                     *)
(***************************************************************************)
VARIABLES again

(***************************************************************************)
(* Planning threads, each deriving the properties of a tree of its own     *)
(* against the shared statistics store (tableStats): pc, snap (the         *)
(* statistics the thread took hold of when it began to plan), memo (its    *)
(* tree) and numCols (its metadata).                                       *)
(***************************************************************************)
VARIABLES threads

\* the number of planning threads
NumThreads == 2
Threads == 1..NumThreads

\* no table has statistics
NoSnapshot == [t \in Tables |-> {}]

\* a thread that is not planning
IdleThread == [pc |-> "idle", snap |-> NoSnapshot, memo |-> <<>>, numCols |-> 0]

\* n threads, none planning
RECURSIVE AllIdle(_)
AllIdle(n) == IF n = 0 THEN <<>> ELSE Append(AllIdle(n - 1), IdleThread)

\* the variables that building the query of the tests does not touch
aside == <<defined, matched, prompt, hashed, threads>>

vars == <<tableStats, numCols, memo, requested, again, aside>>

\* no second derivation
NotAgain == [root |-> 0, second |-> <<>>]

Root == Len(memo)
ScanIdx == {i \in 1..Len(memo) : memo[i].op = "scan"}
HasSet == \E i \in 1..Len(memo) : memo[i].op \in SetOps
\* with two scans in the memo: the root of the left input is the node built
\* just before the second scan, the root of the right input is the last node
RightScan == CHOOSE i \in ScanIdx : \A j \in ScanIdx : j <= i
LeftRoot == RightScan - 1

\* build a scan of table t: the start of the query, or of its right input
Scan(t) ==
  /\ requested = {}
  /\ ~HasSet
  /\ Cardinality(ScanIdx) < 2
  /\ memo' = Append(memo, ScanNode(t, numCols, tableStats[t]))
  /\ numCols' = numCols + Len(TableColumns(t))
  /\ UNCHANGED <<tableStats, requested>>
  /\ UNCHANGED <<again, aside>>

\* build a select "c = constant" over the last node
Select(c) ==
  /\ requested = {}
  /\ memo # <<>>
  /\ memo[Root].op \in {"scan"} \cup SetOps
  /\ c \in memo[Root].cols
  /\ LET st == DeriveColStat(memo, Root, {c})
     IN  /\ st # NoStat
         /\ st.null = RZero
         /\ memo' = Append(RequestColStat(memo, Root, {c}),
                           SelectNode(memo, Root, c, st))
  /\ UNCHANGED <<tableStats, numCols, requested>>
  /\ UNCHANGED <<again, aside>>

\* build a project of the last node to the columns P
Project(P) ==
  /\ requested = {}
  /\ memo # <<>>
  /\ ~HasSet
  /\ memo[Root].op \in {"scan", "select"}
  /\ P # {}
  /\ P \subseteq memo[Root].cols
  /\ memo' = Append(memo, ProjectNode(memo, Root, P))
  /\ UNCHANGED <<tableStats, numCols, requested>>
  /\ UNCHANGED <<again, aside>>

\* faulty variant: Union and UnionAll put out their left columns too
SetOpLeftColumns(op, lcols, rcols) ==
  /\ requested = {}
  /\ ~HasSet
  /\ Cardinality(ScanIdx) = 2
  /\ Len(lcols) = Len(rcols)
  /\ Len(lcols) > 0
  /\ ToSet(lcols) \subseteq memo[LeftRoot].cols
  /\ ToSet(rcols) \subseteq memo[Root].cols
  /\ LET m2 == IF op \in AllOps THEN memo
               ELSE RequestColStat(RequestColStat(memo, LeftRoot, ToSet(lcols)),
                                   Root, ToSet(rcols))
     IN  /\ op \notin AllOps =>
              /\ DeriveColStat(memo, LeftRoot, ToSet(lcols)) # NoStat
              /\ DeriveColStat(memo, Root, ToSet(rcols)) # NoStat
         /\ memo' = Append(m2, SetNode(m2, op, LeftRoot, Root, lcols, rcols, lcols))
  /\ UNCHANGED <<tableStats, numCols, requested>>
  /\ UNCHANGED <<again, aside>>

\* build the set operator op over the two inputs, matching lcols[k] with
\* rcols[k].  Union and UnionAll synthesize their output columns, the others
\* put out their left columns.
SetOp(op, lcols, rcols) ==
  /\ requested = {}
  /\ ~HasSet
  /\ Cardinality(ScanIdx) = 2
  /\ Len(lcols) = Len(rcols)
  /\ Len(lcols) > 0
  /\ ToSet(lcols) \subseteq memo[LeftRoot].cols
  /\ ToSet(rcols) \subseteq memo[Root].cols
  /\ LET synth == op \in {"union", "union-all"}
         ocols == IF synth THEN [k \in 1..Len(lcols) |-> numCols + k] ELSE lcols
         m2    == IF op \in AllOps THEN memo
                  ELSE RequestColStat(RequestColStat(memo, LeftRoot, ToSet(lcols)),
                                      Root, ToSet(rcols))
     IN  /\ op \notin AllOps =>
              /\ DeriveColStat(memo, LeftRoot, ToSet(lcols)) # NoStat
              /\ DeriveColStat(memo, Root, ToSet(rcols)) # NoStat
         /\ memo' = Append(m2, SetNode(m2, op, LeftRoot, Root, lcols, rcols, ocols))
         /\ numCols' = IF synth THEN numCols + Len(lcols) ELSE numCols
  /\ UNCHANGED <<tableStats, requested>>
  /\ UNCHANGED <<again, aside>>

\* build a ScalarGroupBy with nAggs aggregations over the last node
ScalarGroupBy(nAggs) ==
  /\ requested = {}
  /\ memo # <<>>
  /\ memo[Root].op \in {"scan", "select", "project"}
  /\ nAggs > 0
  /\ memo' = Append(memo, ScalarGroupByNode(memo, Root,
                                            (numCols + 1)..(numCols + nAggs)))
  /\ numCols' = numCols + nAggs
  /\ UNCHANGED <<tableStats, requested>>
  /\ UNCHANGED <<again, aside>>

\* build a GroupBy on the columns G with nAggs aggregations over the last
\* node; the statistic of G is requested of the input
GroupBy(G, nAggs) ==
  /\ requested = {}
  /\ memo # <<>>
  /\ memo[Root].op \in {"scan", "select", "project"}
  /\ G # {}
  /\ G \subseteq memo[Root].cols
  /\ DeriveColStat(memo, Root, G) # NoStat
  /\ LET m2 == RequestColStat(memo, Root, G)
     IN  memo' = Append(m2, GroupingNode(m2, "group-by", Root, G,
                                         (numCols + 1)..(numCols + nAggs)))
  /\ numCols' = numCols + nAggs
  /\ UNCHANGED <<tableStats, requested>>
  /\ UNCHANGED <<again, aside>>

\* build a DistinctOn on the columns G over the last node, which puts out
\* the first row of every group: the other columns of the input are its
\* aggregations
DistinctOn(G) ==
  /\ requested = {}
  /\ memo # <<>>
  /\ memo[Root].op \in {"scan", "select", "project"}
  /\ G # {}
  /\ G \subseteq memo[Root].cols
  /\ DeriveColStat(memo, Root, G) # NoStat
  /\ LET m2 == RequestColStat(memo, Root, G)
     IN  memo' = Append(m2, GroupingNode(m2, "distinct-on", Root, G,
                                         memo[Root].cols \ G))
  /\ UNCHANGED <<tableStats, numCols, requested>>
  /\ UNCHANGED <<again, aside>>

\* build a Limit with the limit expression e over the last node; at most two
\* in a query
Limit(e) ==
  /\ requested = {}
  /\ memo # <<>>
  /\ memo[Root].op \in {"scan", "select", "project", "scalar-group-by", "limit"}
  /\ Cardinality({i \in 1..Len(memo) : memo[i].op = "limit"}) < 2
  /\ memo' = Append(memo, LimitNode(memo, Root, e))
  /\ UNCHANGED <<tableStats, numCols, requested>>
  /\ UNCHANGED <<again, aside>>

\* build a second project, to the columns P, of the input of the project
\* built last: the input has two parents
ProjectShared(P) ==
  /\ requested = {}
  /\ ~HasSet
  /\ Cardinality(ScanIdx) = 1
  /\ memo[Root].op = "project"
  /\ Cardinality({k \in 1..Len(memo) : memo[k].op = "project"}) = 1
  /\ P # {}
  /\ P \subseteq memo[memo[Root].left].cols
  /\ memo' = Append(memo, ProjectNode(memo, memo[Root].left, P))
  /\ UNCHANGED <<tableStats, numCols, requested>>
  /\ UNCHANGED <<again, aside>>

\* build the set operator op over the two projects of a shared input,
\* matching lcols[k] with rcols[k]
SetOpShared(op, lcols, rcols) ==
  /\ requested = {}
  /\ ~HasSet
  /\ Cardinality(ScanIdx) = 1
  /\ Len(memo) >= 3
  /\ memo[Root].op = "project"
  /\ memo[Root - 1].op = "project"
  /\ memo[Root].left = memo[Root - 1].left
  /\ Len(lcols) = Len(rcols)
  /\ ToSet(lcols) = memo[Root - 1].cols
  /\ ToSet(rcols) = memo[Root].cols
  /\ LET synth == op \in {"union", "union-all"}
         ocols == IF synth THEN [k \in 1..Len(lcols) |-> numCols + k] ELSE lcols
         m2    == IF op \in AllOps THEN memo
                  ELSE RequestColStat(RequestColStat(memo, Root - 1, ToSet(lcols)),
                                      Root, ToSet(rcols))
     IN  /\ op \notin AllOps =>
              /\ DeriveColStat(memo, Root - 1, ToSet(lcols)) # NoStat
              /\ DeriveColStat(memo, Root, ToSet(rcols)) # NoStat
         /\ memo' = Append(m2, SetNode(m2, op, Root - 1, Root, lcols, rcols, ocols))
         /\ numCols' = IF synth THEN numCols + Len(lcols) ELSE numCols
  /\ UNCHANGED <<tableStats, requested>>
  /\ UNCHANGED <<again, aside>>

\* derive the properties of the subtree of node i once more, from the
\* statistics store as it is; the memo keeps the properties it has
Rederive(i) ==
  /\ again = NotAgain
  /\ i \in 1..Len(memo)
  /\ again' = [root |-> i,
               second |-> Visit(tableStats, memo, NoneVisited(Len(memo)), i)]
  /\ UNCHANGED <<tableStats, numCols, memo, requested>>
  /\ UNCHANGED aside

\* build colstat=S1 colstat=S2 ...: request the statistics of the column sets
\* Ss[1], Ss[2], ... of the built query
ColStat(Ss) ==
  /\ memo # <<>>
  /\ requested = {}
  /\ Ss # <<>>
  /\ \A k \in 1..Len(Ss) :
       /\ Ss[k] # {}
       /\ Ss[k] \subseteq memo[Root].cols
       /\ DeriveColStat(memo, Root, Ss[k]) # NoStat
  /\ memo' = RequestColStats(memo, Root, Ss)
  /\ requested' = ToSet(Ss)
  /\ UNCHANGED <<tableStats, numCols>>
  /\ UNCHANGED <<again, aside>>

\* the next query starts with an empty memo and fresh metadata
NewQuery ==
  /\ memo # <<>>
  /\ memo' = <<>>
  /\ numCols' = 0
  /\ requested' = {}
  /\ again' = NotAgain
  /\ UNCHANGED tableStats
  /\ UNCHANGED aside

\* ALTER TABLE b, c INJECT STATISTICS between two queries
InjectStatistics ==
  /\ memo = <<>>
  /\ tableStats = InjectedFirst
  /\ tableStats' = InjectedBumped
  /\ UNCHANGED <<numCols, memo, requested>>
  /\ UNCHANGED <<again, aside>>

(***************************************************************************)
(* The queries of the statistics tests: SELECT lists over a table or a     *)
(* filtered table, combined by a set operator, possibly filtered again.    *)
(***************************************************************************)
\* the columns of a set in increasing order
RECURSIVE InOrder(_)
InOrder(cs) ==
  IF cs = {} THEN <<>>
  ELSE LET c == CHOOSE x \in cs : \A y \in cs : x <= y
       IN  <<c>> \o InOrder(cs \ {c})

\* The column lists of a set operator over an input with the columns cs: all
\* of them in order (SELECT *), possibly followed by the first one again
\* (SELECT *, x).
SelectLists(cs) == {InOrder(cs), Append(InOrder(cs), InOrder(cs)[1])}

\* the projections of a query: to the first column, to the second, and to
\* two neighbouring columns
Projections(cs) ==
  LET l == InOrder(cs)
  IN  {{l[k]} : k \in (1..2) \cap (1..Len(l))} \cup {{l[k], l[k + 1]} : k \in 1..(Len(l) - 1)}

\* the projection to the first and the third column (SELECT x, s)
Skipping(cs) ==
  LET l == InOrder(cs)
  IN  IF Len(l) >= 3 THEN {{l[1], l[3]}} ELSE {}

\* The column sets whose statistics a set query asks for: every column, then
\* all columns together; those the model computes.
RECURSIVE Computed(_)
Computed(Ss) ==
  IF Ss = <<>> THEN <<>>
  ELSE IF DeriveColStat(memo, Root, Head(Ss)) = NoStat THEN Computed(Tail(Ss))
  ELSE <<Head(Ss)>> \o Computed(Tail(Ss))

Requests ==
  IF ~HasSet THEN {}
  ELSE LET cs == memo[Root].cols
       IN  {Computed([k \in 1..Cardinality(cs) |-> {InOrder(cs)[k]}]
                       \o (IF Cardinality(cs) > 1 THEN <<cs>> ELSE <<>>))}

\* the column a query filters: the first one
FilterColumns == IF memo = <<>> THEN {} ELSE {InOrder(memo[Root].cols)[1]}

\* the left input is of a table that comes before the table of the right
\* input (a, b; a, c; b, c)
Before(t) == IF t = "a" THEN {} ELSE IF t = "b" THEN {"a"} ELSE {"a", "b"}
NextTables ==
  IF ScanIdx = {} THEN {"a", "b"}
  ELSE {t \in Tables : memo[RightScan].table \in Before(t)}

\* nothing of the catalog is read, no thread is planning
InitAside ==
  /\ threads = AllIdle(NumThreads)
  /\ defined = 0
  /\ matched = <<>>
  /\ prompt = [pc |-> "idle", out |-> <<>>, reads |-> <<>>, ret |-> <<>>, err |-> ""]
  /\ hashed = [pc |-> "idle", p |-> <<>>, hash |-> <<>>, herr |-> "",
               q |-> <<>>, cerr |-> ""]

Init ==
  /\ tableStats = InjectedFirst
  /\ numCols = 0
  /\ memo = <<>>
  /\ requested = {}
  /\ again = NotAgain
  /\ InitAside

Next ==
  \/ \E t \in NextTables : Scan(t)
  \/ /\ Cardinality(ScanIdx) = 2
     /\ \E c \in FilterColumns : Select(c)
  \/ /\ memo # <<>>
     /\ \E P \in Projections(memo[Root].cols) \cup Skipping(memo[Root].cols) :
          Project(P)
  \/ /\ Cardinality(ScanIdx) = 2
     /\ \E op \in SetOps :
          \E lcols \in SelectLists(memo[LeftRoot].cols),
             rcols \in SelectLists(memo[Root].cols) : SetOp(op, lcols, rcols)
  \/ \E Ss \in Requests : ColStat(Ss)
  \/ NewQuery
  \/ InjectStatistics

Spec == Init /\ [][Next]_vars

(***************************************************************************)
(* Generated statistics: every table has up to MaxRows rows, one column    *)
(* with any distinct and null count the row count allows, and the other    *)
(* columns' counts follow from them.                                       *)
(***************************************************************************)
\* <<row count, distinct count, null count>>
TableParams ==
  {p \in (0..MaxRows) \X (0..MaxRows) \X (0..MaxRows) :
     /\ p[2] <= p[1] /\ p[3] <= p[1]
     /\ (p[1] > 0) => (p[2] > 0)}

GeneratedTable(t, p) ==
  LET r  == p[1]
      d  == p[2]
      n  == p[3]
      md == IF r = 0 THEN 0 ELSE r + 1 - d
  IN  IF t = "a"
        THEN { Stat({"x"}, 60, r, r, 0),
               Stat({"y"}, 90, r, d, n),
               Stat({"s"}, 90, r, md, r - n) }
      ELSE { Stat({"x"}, 60, r, d, n),
             Stat({"z"}, 90, r, md, 0),
             Stat({"s"}, 90, r, md, r - n),
             Stat({"rowid"}, 90, r, r, 0) }

GeneratedStats ==
  {[a |-> GeneratedTable("a", pa), b |-> GeneratedTable("b", pb),
    c |-> GeneratedTable("c", pa)] : pa \in TableParams, pb \in TableParams}

InitStats ==
  /\ tableStats \in GeneratedStats \cup {InjectedFirst, InjectedBumped}
  /\ numCols = 0
  /\ memo = <<>>
  /\ requested = {}
  /\ again = NotAgain
  /\ InitAside

\* the queries over generated statistics: a, or a combined with b
StatsTables == IF ScanIdx = {} THEN {"a"} ELSE {"b"}

NextStats ==
  \/ \E t \in StatsTables : Scan(t)
  \/ /\ Cardinality(ScanIdx) = 2
     /\ \E c \in FilterColumns : Select(c)
  \/ /\ memo # <<>>
     /\ \E P \in Projections(memo[Root].cols) : Project(P)
  \/ /\ Cardinality(ScanIdx) = 2
     /\ \E op \in SetOps :
          SetOp(op, InOrder(memo[LeftRoot].cols), InOrder(memo[Root].cols))
  \/ \E Ss \in Requests : ColStat(Ss)
  \/ NewQuery

SpecStats == InitStats /\ [][NextStats]_vars

\* the queries over generated statistics that subtract: EXCEPT, EXCEPT ALL
ExceptOps == {"except", "except-all"}

NextExcept ==
  \/ \E t \in StatsTables : Scan(t)
  \/ /\ Cardinality(ScanIdx) = 2
     /\ \E c \in FilterColumns : Select(c)
  \/ /\ memo # <<>>
     /\ \E P \in Projections(memo[Root].cols) : Project(P)
  \/ /\ Cardinality(ScanIdx) = 2
     /\ \E op \in ExceptOps :
          SetOp(op, InOrder(memo[LeftRoot].cols), InOrder(memo[Root].cols))
  \/ \E Ss \in Requests : ColStat(Ss)
  \/ NewQuery

SpecExcept == InitStats /\ [][NextExcept]_vars

(***************************************************************************)
(* Queries over one table, generated or recorded statistics: a table,      *)
(* filtered or projected, under a ScalarGroupBy and up to two Limits.      *)
(***************************************************************************)
\* the limit expressions: not a constant, or the constants 0 .. MaxLimit
LimitExprs ==
  {[const |-> FALSE, value |-> 0]} \cup {[const |-> TRUE, value |-> n] : n \in 0..MaxLimit}

RowsTables == IF ScanIdx = {} THEN {"a", "b"} ELSE {}

NextRows ==
  \/ \E t \in RowsTables : Scan(t)
  \/ \E c \in FilterColumns : Select(c)
  \/ /\ memo # <<>>
     /\ \E P \in Projections(memo[Root].cols) : Project(P)
  \/ \E nAggs \in 1..MaxAggs : ScalarGroupBy(nAggs)
  \/ \E e \in LimitExprs : Limit(e)
  \/ NewQuery

SpecRows == InitStats /\ [][NextRows]_vars

(***************************************************************************)
(* Queries over one table, generated or recorded statistics: a table,      *)
(* filtered or projected, under a GroupBy or a DistinctOn.                 *)
(***************************************************************************)
NextGroup ==
  \/ \E t \in RowsTables : Scan(t)
  \/ \E c \in FilterColumns : Select(c)
  \/ /\ memo # <<>>
     /\ \E P \in Projections(memo[Root].cols) : Project(P)
  \/ /\ memo # <<>>
     /\ \E G \in Projections(memo[Root].cols), nAggs \in 0..MaxAggs :
          GroupBy(G, nAggs)
  \/ /\ memo # <<>>
     /\ \E G \in Projections(memo[Root].cols) : DistinctOn(G)
  \/ NewQuery

SpecGroup == InitStats /\ [][NextGroup]_vars

(***************************************************************************)
(* Scans with one requested statistic, of any column set the model         *)
(* computes (build colstat=(1,2) SELECT * FROM b).                         *)
(***************************************************************************)
ScanTables == IF memo = <<>> THEN Tables ELSE {}

ScanRequests ==
  IF memo = <<>> THEN {}
  ELSE {<<S>> : S \in {T \in SUBSET memo[Root].cols :
                          T # {} /\ DeriveColStat(memo, Root, T) # NoStat}}

NextScan ==
  \/ \E t \in ScanTables : Scan(t)
  \/ \E Ss \in ScanRequests : ColStat(Ss)
  \/ NewQuery

SpecScan == InitStats /\ [][NextScan]_vars

(***************************************************************************)
(* Queries whose properties are derived a second time: the queries of the  *)
(* statistics tests, and set operators over two projections of one input,  *)
(* which is then the input of two parents.  The second derivation is of a  *)
(* finished query, whose column statistics were requested.                 *)
(***************************************************************************)
NextShared ==
  \/ \E t \in NextTables : Scan(t)
  \/ /\ HasSet
     /\ \E c \in FilterColumns : Select(c)
  \/ /\ memo # <<>>
     /\ \E P \in Projections(memo[Root].cols) : Project(P)
  \/ /\ memo # <<>>
     /\ memo[Root].left > 0
     /\ \E P \in Projections(memo[memo[Root].left].cols) : ProjectShared(P)
  \/ /\ Cardinality(ScanIdx) = 2
     /\ \E op \in SetOps :
          SetOp(op, InOrder(memo[LeftRoot].cols), InOrder(memo[Root].cols))
  \/ /\ Len(memo) >= 3
     /\ \E op \in SetOps :
          SetOpShared(op, InOrder(memo[Root - 1].cols), InOrder(memo[Root].cols))
  \/ \E Ss \in Requests : ColStat(Ss)
  \/ /\ requested # {}
     /\ \E i \in 1..Len(memo) : Rederive(i)
  \/ NewQuery
  \/ InjectStatistics

SpecShared == Init /\ [][NextShared]_vars

(***************************************************************************)
(* Concurrent planning.  A thread takes hold of the statistics store as it *)
(* is when it begins to plan; the store is refreshed by putting a whole    *)
(* new snapshot in its place, which leaves the snapshot a thread holds as  *)
(* it was.  A thread builds a table, or two tables combined by a set       *)
(* operator on their first two columns, of which it requests a column      *)
(* statistic.                                                              *)
(***************************************************************************)
\* the contents the store takes in the tests
Snapshots == {InjectedFirst, InjectedBumped}

\* faulty variant: the statistics are read from the store as it is now
ReadStatisticsLive(th, t) == tableStats[t]

\* the statistics of table t that thread th reads: those of its snapshot
ReadStatistics(th, t) == threads[th].snap[t]

\* the set operators the threads build
ThreadOps == {"union", "except-all"}

\* the tables a thread builds next: a or b, then c
ThreadTables(th) ==
  LET tr == threads[th].memo
  IN  IF tr = <<>> THEN {"a", "b"}
      ELSE IF Len(tr) = 1 THEN {"c"}
      ELSE {}

\* the first two columns of node i of a thread's tree
FirstTwo(tr, i) == SubSeq(InOrder(tr[i].cols), 1, 2)

\* thread th begins to plan
Begin(th) ==
  /\ threads[th].pc = "idle"
  /\ threads' = [threads EXCEPT ![th] = [pc |-> "planning", snap |-> tableStats,
                                         memo |-> <<>>, numCols |-> 0]]
  /\ UNCHANGED <<tableStats, numCols, memo, requested, again>>
  /\ UNCHANGED <<defined, matched, prompt, hashed>>

\* thread th builds a scan of table t
ThreadScan(th, t) ==
  /\ threads[th].pc = "planning"
  /\ Len(threads[th].memo) < 2
  /\ threads' = [threads EXCEPT ![th] =
       [threads[th] EXCEPT
          !.memo = Append(@, ScanNode(t, threads[th].numCols, ReadStatistics(th, t))),
          !.numCols = @ + Len(TableColumns(t))]]
  /\ UNCHANGED <<tableStats, numCols, memo, requested, again>>
  /\ UNCHANGED <<defined, matched, prompt, hashed>>

\* thread th builds the set operator op over its two scans
ThreadSetOp(th, op) ==
  LET tr    == threads[th].memo
      lcols == FirstTwo(tr, 1)
      rcols == FirstTwo(tr, 2)
      synth == op \in {"union", "union-all"}
      ocols == IF synth THEN [k \in 1..Len(lcols) |-> threads[th].numCols + k]
               ELSE lcols
      m2    == IF op \in AllOps THEN tr
               ELSE RequestColStat(RequestColStat(tr, 1, ToSet(lcols)),
                                   2, ToSet(rcols))
  IN  /\ threads[th].pc = "planning"
      /\ Len(tr) = 2
      /\ op \notin AllOps =>
           /\ DeriveColStat(tr, 1, ToSet(lcols)) # NoStat
           /\ DeriveColStat(tr, 2, ToSet(rcols)) # NoStat
      /\ threads' = [threads EXCEPT ![th] =
           [threads[th] EXCEPT
              !.memo = Append(m2, SetNode(m2, op, 1, 2, lcols, rcols, ocols)),
              !.numCols = IF synth THEN @ + Len(lcols) ELSE @]]
      /\ UNCHANGED <<tableStats, numCols, memo, requested, again>>
      /\ UNCHANGED <<defined, matched, prompt, hashed>>

\* thread th requests the statistic of the first column of its set
\* operator, which the scans derive from the statistics they hold
ThreadColStat(th) ==
  LET tr == threads[th].memo
      S  == {InOrder(tr[Len(tr)].cols)[1]}
  IN  /\ threads[th].pc = "planning"
      /\ Len(tr) = 3
      /\ S \notin DOMAIN tr[Len(tr)].stats
      /\ DeriveColStat(tr, Len(tr), S) # NoStat
      /\ threads' = [threads EXCEPT ![th] =
           [threads[th] EXCEPT !.memo = RequestColStat(tr, Len(tr), S)]]
      /\ UNCHANGED <<tableStats, numCols, memo, requested, again>>
      /\ UNCHANGED <<defined, matched, prompt, hashed>>

\* thread th is done with its tree
Finish(th) ==
  /\ threads[th].pc = "planning"
  /\ threads[th].memo # <<>>
  /\ threads' = [threads EXCEPT ![th] = IdleThread]
  /\ UNCHANGED <<tableStats, numCols, memo, requested, again>>
  /\ UNCHANGED <<defined, matched, prompt, hashed>>

\* a catalog change: the snapshot s is put in the place of the store
Refresh(s) ==
  /\ s # tableStats
  /\ tableStats' = s
  /\ UNCHANGED <<numCols, memo, requested, again>>
  /\ UNCHANGED <<defined, matched, prompt, hashed, threads>>

NextThreads ==
  \/ \E th \in Threads : Begin(th)
  \/ \E th \in Threads : \E t \in ThreadTables(th) : ThreadScan(th, t)
  \/ \E th \in Threads : \E op \in ThreadOps : ThreadSetOp(th, op)
  \/ \E th \in Threads : ThreadColStat(th)
  \/ \E th \in Threads : Finish(th)
  \/ \E s \in Snapshots : Refresh(s)

SpecThreads == Init /\ [][NextThreads]_vars

(***************************************************************************)
(* The operator catalog: ops/relational.opt, definition by definition, in  *)
(* the order of the file.  A definition is an operator, or the private     *)
(* data of operators (tag Private).                                        *)
(***************************************************************************)
Define(name, tags) == [name |-> name, tags |-> tags]

ScanDefines ==
  << Define("Scan", {"Relational"}),
     Define("ScanPrivate", {"Private"}),
     Define("VirtualScan", {"Relational"}),
     Define("VirtualScanPrivate", {"Private"}),
     Define("Values", {"Relational"}),
     Define("Select", {"Relational"}),
     Define("Project", {"Relational"}) >>

JoinDefines ==
  << Define("InnerJoin", {"Relational", "Join", "JoinNonApply"}),
     Define("LeftJoin", {"Relational", "Join", "JoinNonApply"}),
     Define("RightJoin", {"Relational", "Join", "JoinNonApply"}),
     Define("FullJoin", {"Relational", "Join", "JoinNonApply"}),
     Define("SemiJoin", {"Relational", "Join", "JoinNonApply"}),
     Define("AntiJoin", {"Relational", "Join", "JoinNonApply"}) >>

LookupDefines ==
  << Define("IndexJoin", {"Relational"}),
     Define("IndexJoinPrivate", {"Private"}),
     Define("LookupJoin", {"Relational"}),
     Define("LookupJoinPrivate", {"Private"}),
     Define("MergeJoin", {"Relational"}),
     Define("MergeJoinPrivate", {"Private"}) >>

\* faulty variant: AntiJoinApply is defined without the Join tag
JoinApplyDefinesUntagged ==
  << Define("InnerJoinApply", {"Relational", "Join", "JoinApply"}),
     Define("LeftJoinApply", {"Relational", "Join", "JoinApply"}),
     Define("RightJoinApply", {"Relational", "Join", "JoinApply"}),
     Define("FullJoinApply", {"Relational", "Join", "JoinApply"}),
     Define("SemiJoinApply", {"Relational", "Join", "JoinApply"}),
     Define("AntiJoinApply", {"Relational", "JoinApply"}) >>

JoinApplyDefines ==
  << Define("InnerJoinApply", {"Relational", "Join", "JoinApply"}),
     Define("LeftJoinApply", {"Relational", "Join", "JoinApply"}),
     Define("RightJoinApply", {"Relational", "Join", "JoinApply"}),
     Define("FullJoinApply", {"Relational", "Join", "JoinApply"}),
     Define("SemiJoinApply", {"Relational", "Join", "JoinApply"}),
     Define("AntiJoinApply", {"Relational", "Join", "JoinApply"}) >>

GroupingDefines ==
  << Define("GroupBy", {"Relational", "Grouping"}),
     Define("GroupingPrivate", {"Private"}),
     Define("ScalarGroupBy", {"Relational", "Grouping"}),
     Define("DistinctOn", {"Relational", "Grouping"}) >>

SetDefines ==
  << Define("Union", {"Relational", "Set"}),
     Define("SetPrivate", {"Private"}),
     Define("Intersect", {"Relational", "Set"}),
     Define("Except", {"Relational", "Set"}),
     Define("UnionAll", {"Relational", "Set"}),
     Define("IntersectAll", {"Relational", "Set"}),
     Define("ExceptAll", {"Relational", "Set"}) >>

OtherDefines ==
  << Define("Limit", {"Relational"}),
     Define("Offset", {"Relational"}),
     Define("Max1Row", {"Relational"}),
     Define("Explain", {"Relational"}),
     Define("ExplainPrivate", {"Private"}),
     Define("ShowTraceForSession", {"Relational"}),
     Define("ShowTracePrivate", {"Private"}),
     Define("RowNumber", {"Relational"}),
     Define("RowNumberPrivate", {"Private"}),
     Define("Zip", {"Relational"}) >>

Catalog ==
  ScanDefines \o JoinDefines \o LookupDefines \o JoinApplyDefines
    \o GroupingDefines \o SetDefines \o OtherDefines

Tags == {"Relational", "Join", "JoinNonApply", "JoinApply", "Grouping", "Set",
         "Private"}

\* the optimizer's variables, which reading the catalog leaves alone
optimizer == <<tableStats, numCols, memo, requested, again, threads>>

\* the next definition of the file is read
ReadDefine ==
  /\ defined < Len(Catalog)
  /\ defined' = defined + 1
  /\ UNCHANGED <<matched, prompt, hashed, optimizer>>

\* with the whole file read, a pattern that names a tag is matched against
\* the k-th definition: it matches when the definition carries the tag
MatchTag(tag, k) ==
  /\ defined = Len(Catalog)
  /\ matched' = <<tag, Catalog[k].name, tag \in Catalog[k].tags>>
  /\ UNCHANGED <<defined, prompt, hashed, optimizer>>

NextCatalog ==
  \/ ReadDefine
  \/ \E tag \in Tags : \E k \in 1..Len(Catalog) : MatchTag(tag, k)

SpecCatalog == Init /\ [][NextCatalog]_vars

(***************************************************************************)
(* security/password.go: PromptForPasswordTwice.  A password is a sequence *)
(* of bytes; a read of the terminal gives bytes and an error ("" for nil). *)
(***************************************************************************)
ErrEmptyPassword == "empty passwords are not permitted"

\* the errors of terminal.ReadPassword
ReadErrors == {"EOF", "inappropriate ioctl for device"}

\* the byte sequences of up to n bytes 'a' and 'b'
RECURSIVE Typed(_)
Typed(n) ==
  IF n = 0 THEN {<<>>}
  ELSE Typed(n - 1) \cup {Append(w, b) : w \in {v \in Typed(n - 1) : Len(v) = n - 1},
                                         b \in {97, 98}}

\* what terminal.ReadPassword may return: the line typed, or an error with
\* whatever was typed before it
ReadResults ==
  {[bytes |-> w, err |-> e] : w \in Typed(MaxLen), e \in {""} \cup ReadErrors}

\* faulty variant: entries of the same length are taken to be equal
ConfirmLength(one, two) ==
  IF Len(one) # Len(two) THEN [ret |-> <<>>, err |-> "password mismatch"]
  ELSE [ret |-> one, err |-> ""]

\* lines 97-101: the entries are compared, bytes.Equal
Confirm(one, two) ==
  IF one # two THEN [ret |-> <<>>, err |-> "password mismatch"]
  ELSE [ret |-> one, err |-> ""]

\* PromptForPasswordTwice is called: line 82
PromptCall ==
  /\ prompt.pc \in {"idle", "done"}
  /\ prompt' = [pc |-> "read one", out |-> <<"Enter password: ">>,
                reads |-> <<>>, ret |-> <<>>, err |-> ""]
  /\ UNCHANGED <<defined, matched, hashed, optimizer>>

\* faulty variant: the entry is checked for emptiness before the error of
\* the read
ReadOneEmptyFirst(r) ==
  /\ prompt.pc = "read one"
  /\ prompt' =
       IF Len(r.bytes) = 0
         THEN [prompt EXCEPT !.pc = "done", !.reads = <<r>>, !.ret = <<>>,
                             !.err = ErrEmptyPassword]
       ELSE IF r.err # ""
         THEN [prompt EXCEPT !.pc = "done", !.reads = <<r>>, !.ret = <<>>,
                             !.err = r.err]
       ELSE [prompt EXCEPT !.pc = "read two", !.reads = <<r>>,
                           !.out = Append(@, "\nConfirm password: ")]
  /\ UNCHANGED <<defined, matched, hashed, optimizer>>

\* lines 83-90: the first read returns r
ReadOne(r) ==
  /\ prompt.pc = "read one"
  /\ prompt' =
       IF r.err # ""
         THEN [prompt EXCEPT !.pc = "done", !.reads = <<r>>, !.ret = <<>>,
                             !.err = r.err]
       ELSE IF Len(r.bytes) = 0
         THEN [prompt EXCEPT !.pc = "done", !.reads = <<r>>, !.ret = <<>>,
                             !.err = ErrEmptyPassword]
       ELSE [prompt EXCEPT !.pc = "read two", !.reads = <<r>>,
                           !.out = Append(@, "\nConfirm password: ")]
  /\ UNCHANGED <<defined, matched, hashed, optimizer>>

\* lines 91-101: the second read returns r
ReadTwo(r) ==
  /\ prompt.pc = "read two"
  /\ prompt' =
       IF r.err # ""
         THEN [prompt EXCEPT !.pc = "done", !.reads = Append(@, r),
                             !.ret = <<>>, !.err = r.err]
       ELSE LET c == Confirm(prompt.reads[1].bytes, r.bytes)
            IN  [prompt EXCEPT !.pc = "done", !.reads = Append(@, r),
                                !.out = Append(@, "\n"),
                                !.ret = c.ret, !.err = c.err]
  /\ UNCHANGED <<defined, matched, hashed, optimizer>>

NextPrompt ==
  \/ PromptCall
  \/ \E r \in ReadResults : ReadOne(r)
  \/ \E r \in ReadResults : ReadTwo(r)

SpecPrompt == Init /\ [][NextPrompt]_vars

(***************************************************************************)
(* security/password.go: HashPassword and CompareHashAndPassword, with     *)
(* what crypto/sha256 and x/crypto/bcrypt do to their arguments.           *)
(***************************************************************************)
\* sha256.New().Sum(nil): the SHA-256 of no input
EmptySum ==
  << 227, 176, 196, 66, 152, 252, 28, 20,
     154, 251, 244, 200, 153, 111, 185, 36,
     39, 174, 65, 228, 100, 155, 147, 76,
     164, 149, 153, 27, 120, 82, 184, 85 >>

\* h.Sum(b) of a hash h that was written nothing: b, followed by the hash
\* of no input
Sum(b) == b \o EmptySum

\* bcrypt's key schedule (blowfish.ExpandKey) reads 18 words of 4 bytes
KeyBytes == 72
\* bcrypt.DefaultCost, bcrypt.MaxCost
DefaultCost == 10
MaxCost == 31

\* What bcrypt's key schedule reads of a key: the key and a zero byte,
\* repeated, up to KeyBytes bytes.
KeyStream(key) ==
  LET ck == Append(key, 0)
  IN  [i \in 1..KeyBytes |-> ck[((i - 1) % Len(ck)) + 1]]

\* bcrypt.GenerateFromPassword: the hash holds the cost, the salt and a
\* digest of what the key schedule read (taken to be free of collisions, so
\* it stands for itself).  Newer versions of the library refuse a password
\* of more than KeyBytes bytes (strict).
GenerateFromPassword(password, cost, salt, strict) ==
  IF strict /\ Len(password) > KeyBytes
    THEN [hash |-> <<>>, err |-> "bcrypt: password length exceeds 72 bytes"]
  ELSE IF cost > MaxCost
    THEN [hash |-> <<>>, err |-> "crypto/bcrypt: cost outside allowed range"]
  ELSE [hash |-> <<cost, salt, KeyStream(password)>>, err |-> ""]

\* bcrypt.CompareHashAndPassword: the password is hashed with the cost and
\* the salt of the hash, and the digests are compared
BcryptCompare(hash, password) ==
  IF KeyStream(password) = hash[3] THEN ""
  ELSE "crypto/bcrypt: hashedPassword is not the hash of the given password"

\* n bytes 'a'
Fill(n) == [i \in 1..n |-> 97]

\* The passwords hashed and compared: short ones; one as long as bcrypt's
\* key schedule reads when the SHA-256 of no input follows it, and the same
\* followed by more; ones as long as the key schedule reads, and longer.
Passwords ==
  Typed(1)
    \cup {Fill(KeyBytes - Len(EmptySum)), Fill(KeyBytes - Len(EmptySum)) \o EmptySum}
    \cup {Fill(KeyBytes) \o w : w \in Typed(1)}

\* the values of BcryptCost ("exposed for testing")
Costs == {DefaultCost, MaxCost + 1}
\* the random salts, by name
Salts == {1, 2}

\* HashPassword(p): lines 58-62
HashPassword(p, cost, salt, strict) ==
  /\ hashed.pc \in {"idle", "compared", "failed"}
  /\ LET g == GenerateFromPassword(Sum(p), cost, salt, strict)
     IN  hashed' = [pc |-> IF g.err = "" THEN "hashed" ELSE "failed",
                    p |-> p, hash |-> g.hash, herr |-> g.err,
                    q |-> <<>>, cerr |-> ""]
  /\ UNCHANGED <<defined, matched, prompt, optimizer>>

\* CompareHashAndPassword(hash, q), of a hash that HashPassword returned:
\* lines 43-55
CompareHashAndPassword(q) ==
  /\ hashed.pc = "hashed"
  /\ hashed' = [hashed EXCEPT !.pc = "compared", !.q = q,
                              !.cerr = BcryptCompare(hashed.hash, Sum(q))]
  /\ UNCHANGED <<defined, matched, prompt, optimizer>>

NextHash ==
  \/ \E p \in Passwords, cost \in Costs, salt \in Salts, strict \in BOOLEAN :
       HashPassword(p, cost, salt, strict)
  \/ \E q \in Passwords : CompareHashAndPassword(q)

SpecHash == Init /\ [][NextHash]_vars

(***************************************************************************)
(* Properties.                                                             *)
(***************************************************************************)
Nodes == 1..Len(memo)
NodesOf(ops) == {i \in Nodes : memo[i].op \in ops}

\* the rows of the inputs of set node i
LeftRows(i) == memo[memo[i].left].rows
RightRows(i) == memo[memo[i].right].rows

\* the output column sets of node i whose statistic is present
Present(i) == DOMAIN memo[i].stats

\* the statistics the inputs of set node i hold for the columns that
\* correspond to the output columns S
LeftStat(i, S) ==
  memo[memo[i].left].stats[TranslateColSet(S, memo[i].ocols, memo[i].lcols)]
RightStat(i, S) ==
  memo[memo[i].right].stats[TranslateColSet(S, memo[i].ocols, memo[i].rcols)]

\* x is the smaller of p and q
IsMin(x, p, q) == x \in {p, q} /\ RLe(x, p) /\ RLe(x, q)

\* the statistic of S that set node i would hold with node j, and its
\* columns rcols, as the right input
WithRight(i, j, rcols, S) ==
  LET m == Append(memo, SetNode(memo, memo[i].op, memo[i].left, j,
                                memo[i].lcols, rcols, memo[i].ocols))
  IN  DeriveColStat(m, Len(m), S)

\* C1: the row count of every UnionAll node is the left input's row count
\* plus the right input's row count.
UnionAllRowCount ==
  \A i \in NodesOf({"union-all"}) :
    memo[i].rows = RAdd(LeftRows(i), RightRows(i))

\* a UnionAll of two inputs that both have rows, of different counts
UnionAllRowCountWitness ==
  \E i \in NodesOf({"union-all"}) :
    /\ LeftRows(i) = R(2) /\ RightRows(i) = R(1)
    /\ memo[i].rows = R(3)

\* C2: the row count of every Union node is the left input's distinct count
\* of all left columns plus the right input's distinct count of all right
\* columns.
UnionRowCount ==
  \A i \in NodesOf({"union"}) :
    memo[i].rows = RAdd(LeftStat(i, memo[i].cols).distinct,
                        RightStat(i, memo[i].cols).distinct)

\* SELECT y FROM a UNION SELECT z FROM b: 400 + 100 = 500 rows, where UNION
\* ALL has 5000 + 10000
UnionRowCountWitness ==
  \E i \in NodesOf({"union"}) :
    /\ LeftStat(i, memo[i].cols).distinct = R(400)
    /\ RightStat(i, memo[i].cols).distinct = R(100)
    /\ memo[i].rows = R(500)
    /\ RAdd(LeftRows(i), RightRows(i)) = R(15000)

\* C3: the row count of every Intersect node is the smaller of the left
\* input's distinct count of all left columns and the right input's distinct
\* count of all right columns.
IntersectRowCount ==
  \A i \in NodesOf({"intersect"}) :
    LET l == LeftStat(i, memo[i].cols).distinct
        r == RightStat(i, memo[i].cols).distinct
    IN  IsMin(memo[i].rows, l, r)

\* SELECT y, s FROM a INTERSECT SELECT z, s FROM b: min(1000, 200) = 200
IntersectRowCountWitness ==
  \E i \in NodesOf({"intersect"}) :
    /\ LeftStat(i, memo[i].cols).distinct = R(1000)
    /\ RightStat(i, memo[i].cols).distinct = R(200)
    /\ memo[i].rows = R(200)

\* the column lists of length n over the columns of node j, in increasing
\* or in decreasing order
ListsOver(j, n) ==
  {l \in [1..n -> memo[j].cols] :
     \/ \A k \in 1..(n - 1) : l[k] < l[k + 1]
     \/ \A k \in 1..(n - 1) : l[k] > l[k + 1]}

\* C4: the row count of every Except node is the left input's distinct count
\* of all left columns, and it is the same with any other node of the memo,
\* and any of that node's columns, as the right input.
ExceptRowCount ==
  \A i \in NodesOf({"except"}) :
    /\ memo[i].rows = LeftStat(i, memo[i].cols).distinct
    /\ \A j \in Nodes \ {i} :
         \A rcols \in ListsOver(j, Len(memo[i].lcols)) :
           DeriveColStat(memo, j, ToSet(rcols)) # NoStat =>
             SetNode(memo, "except", memo[i].left, j,
                     memo[i].lcols, rcols, memo[i].ocols).rows = memo[i].rows

\* an Except whose right input has fewer rows and fewer distinct values than
\* the left
ExceptRowCountWitness ==
  \E i \in NodesOf({"except"}) :
    /\ RLt(RightRows(i), LeftRows(i))
    /\ RLt(RightStat(i, memo[i].cols).distinct,
           LeftStat(i, memo[i].cols).distinct)
    /\ memo[i].rows = LeftStat(i, memo[i].cols).distinct
    /\ RLt(RZero, memo[i].rows)

\* C5, as claimed: every IntersectAll node has the left input's row count,
\* and every statistic present on it is the left input's statistic of the
\* corresponding columns.
IntersectAllIsLeft ==
  \A i \in NodesOf({"intersect-all"}) :
    /\ memo[i].rows = LeftRows(i)
    /\ \A S \in Present(i) : memo[i].stats[S] = LeftStat(i, S)

\* C5, amended: every IntersectAll node has the smaller of its inputs' row
\* counts, and every statistic present on it has the smaller of the inputs'
\* distinct counts and the smaller of the inputs' null counts of the
\* corresponding columns.
IntersectAllIsMin ==
  \A i \in NodesOf({"intersect-all"}) :
    /\ IsMin(memo[i].rows, LeftRows(i), RightRows(i))
    /\ \A S \in Present(i) :
         /\ IsMin(memo[i].stats[S].distinct,
                  LeftStat(i, S).distinct, RightStat(i, S).distinct)
         /\ IsMin(memo[i].stats[S].null,
                  LeftStat(i, S).null, RightStat(i, S).null)

\* an IntersectAll whose right input is filtered to fewer rows than the left
\* input has (2 of 10000, against 5000), with a statistic whose distinct
\* count is the right input's
IntersectAllIsMinWitness ==
  \E i \in NodesOf({"intersect-all"}) :
    /\ LeftRows(i) = R(5000)
    /\ RightRows(i) = R(2)
    /\ memo[i].rows = R(2)
    /\ \E S \in Present(i) :
         /\ RLt(RightStat(i, S).distinct, LeftStat(i, S).distinct)
         /\ memo[i].stats[S].distinct = RightStat(i, S).distinct

\* C6: every ExceptAll node has the left input's row count, and every
\* statistic present on it is the left input's statistic of the
\* corresponding columns; both are the same with any other node of the memo,
\* and any of that node's columns, as the right input.
ExceptAllIsLeft ==
  \A i \in NodesOf({"except-all"}) :
    /\ memo[i].rows = LeftRows(i)
    /\ \A S \in Present(i) : memo[i].stats[S] = LeftStat(i, S)
    /\ \A j \in Nodes \ {i} :
         \A rcols \in ListsOver(j, Len(memo[i].lcols)) :
           /\ SetNode(memo, "except-all", memo[i].left, j,
                      memo[i].lcols, rcols, memo[i].ocols).rows = memo[i].rows
           /\ \A S \in Present(i) :
                WithRight(i, j, rcols, S) \in {NoStat, memo[i].stats[S]}

\* an ExceptAll with a statistic of nullable columns, whose right input has
\* fewer rows, fewer distinct values and fewer nulls than the left
ExceptAllIsLeftWitness ==
  \E i \in NodesOf({"except-all"}) :
    /\ RLt(RightRows(i), LeftRows(i))
    /\ \E S \in Present(i) :
         /\ RLt(RightStat(i, S).distinct, LeftStat(i, S).distinct)
         /\ RLt(RightStat(i, S).null, LeftStat(i, S).null)
         /\ memo[i].stats[S] = LeftStat(i, S)

\* C7: on every node, every statistic that is present has a distinct count
\* and a null count between 0 and the node's row count.
StatsWithinRowCount ==
  \A i \in Nodes :
    \A S \in Present(i) :
      /\ RLe(RZero, memo[i].stats[S].distinct)
      /\ RLe(memo[i].stats[S].distinct, memo[i].rows)
      /\ RLe(RZero, memo[i].stats[S].null)
      /\ RLe(memo[i].stats[S].null, memo[i].rows)

\* a Union of two columns that are mostly NULL, whose null count reaches the
\* row count, filtered by a Select with fewer rows which has statistics too
StatsWithinRowCountWitness ==
  \E i \in NodesOf({"select"}) :
    /\ memo[memo[i].left].op = "union"
    /\ \E S \in Present(memo[i].left) :
         memo[memo[i].left].stats[S].null = memo[memo[i].left].rows
    /\ RLt(memo[i].rows, memo[memo[i].left].rows)
    /\ Present(i) # {}

\* C8: every Union, Intersect and Except node has the set of all its output
\* columns as a key; UnionAll, IntersectAll and ExceptAll nodes do not.
SetOpKeys ==
  \A i \in NodesOf(SetOps) :
    (memo[i].cols \in memo[i].keys) <=> (memo[i].op \notin AllOps)

\* an Intersect of two inputs without keys, which has the key
SetOpKeysWitness ==
  \E i \in NodesOf({"intersect"}) :
    /\ memo[memo[i].left].keys = {}
    /\ memo[memo[i].right].keys = {}
    /\ memo[i].keys = {memo[i].cols}

\* C9: on every node, the distinct count of every key without nullable
\* columns is the node's row count.
KeyDistinctIsRowCount ==
  \A i \in Nodes :
    \A K \in memo[i].keys :
      (K \subseteq memo[i].notnull /\ DeriveColStat(memo, i, K) # NoStat)
        => DeriveColStat(memo, i, K).distinct = memo[i].rows

\* a Select with fewer rows than its input, with the statistic of a key
\* without nullable columns
KeyDistinctIsRowCountWitness ==
  \E i \in NodesOf({"select"}) :
    \E K \in memo[i].keys :
      /\ K \subseteq memo[i].notnull
      /\ K \in Present(i)
      /\ K # {memo[i].filter}
      /\ RLt(memo[i].rows, memo[memo[i].left].rows)
      /\ memo[i].stats[K].distinct = memo[i].rows

\* C10: every key of every node is a subset of the node's columns; a Project
\* reports exactly those keys of its input that it keeps all columns of, and
\* its functional dependencies are those of the input whose determinant it
\* keeps, with the dependents restricted to the projected columns.
KeysWithinColumns ==
  /\ \A i \in Nodes : \A K \in memo[i].keys : K \subseteq memo[i].cols
  /\ \A i \in NodesOf({"project"}) :
       LET in == memo[memo[i].left]
           P  == memo[i].cols
       IN  /\ \A K \in in.keys : (K \in memo[i].keys) <=> (K \subseteq P)
           /\ \A fd \in memo[i].fds :
                /\ fd[1] \cup fd[2] \subseteq P
                /\ fd[2] # {}
                /\ \E g \in in.fds : g[1] = fd[1] /\ fd[2] = g[2] \cap P
           /\ \A g \in in.fds :
                (g[1] \subseteq P /\ g[2] \cap P # {})
                  => <<g[1], g[2] \cap P>> \in memo[i].fds

\* SELECT x, y FROM a keeps the key (x) with x --> y; SELECT z, s FROM b
\* drops the key (rowid)
KeysWithinColumnsWitness ==
  /\ \E i \in NodesOf({"project"}) :
       /\ memo[memo[i].left].fds = {<<{1}, {2, 3}>>}
       /\ memo[i].keys = {{1}}
       /\ memo[i].fds = {<<{1}, {2}>>}
  /\ \E i \in NodesOf({"project"}) :
       /\ memo[memo[i].left].keys # {}
       /\ memo[i].keys = {}

\* C11: every ScalarGroupBy node has exactly one row, whatever the row count
\* of its input, and no grouping columns.
ScalarGroupByOneRow ==
  \A i \in NodesOf({"scalar-group-by"}) :
    /\ memo[i].rows = ROne
    /\ memo[i].grouping = {}

\* a ScalarGroupBy with one row over an input without rows
ScalarGroupByOneRowWitness ==
  \E i \in NodesOf({"scalar-group-by"}) :
    /\ memo[memo[i].left].rows = RZero
    /\ memo[i].rows = ROne
    /\ memo[i].grouping = {}

\* C12: every statistic present on a UnionAll node has the sum of the
\* inputs' distinct counts, and the sum of the inputs' null counts, of the
\* corresponding column sets.
UnionAllColStat ==
  \A i \in NodesOf({"union-all"}) :
    \A S \in Present(i) :
      /\ memo[i].stats[S].distinct =
           RAdd(LeftStat(i, S).distinct, RightStat(i, S).distinct)
      /\ memo[i].stats[S].null = RAdd(LeftStat(i, S).null, RightStat(i, S).null)

\* SELECT x, s FROM b UNION ALL SELECT x, s FROM c with colstat=(9,10):
\* distinct 10000 + 10000, null 6250 + 7750
UnionAllColStatWitness ==
  \E i \in NodesOf({"union-all"}) :
    \E S \in Present(i) :
      /\ Cardinality(S) = 2
      /\ LeftStat(i, S) = [distinct |-> R(10000), null |-> R(6250)]
      /\ RightStat(i, S) = [distinct |-> R(10000), null |-> R(7750)]
      /\ memo[i].stats[S] = [distinct |-> R(20000), null |-> R(14000)]

\* C13: a Limit node whose limit is the constant 0, or not a constant, has
\* the row count of its input; a Limit node whose limit is a positive
\* constant N has the smaller of N and the input's row count, which is N when
\* N is less than the input's row count.
LimitRowCount ==
  \A i \in NodesOf({"limit"}) :
    LET in == memo[memo[i].left].rows
        e  == memo[i].limit
    IN  /\ (~e.const \/ e.value = 0) => memo[i].rows = in
        /\ (e.const /\ e.value > 0) => IsMin(memo[i].rows, in, R(e.value))
        /\ (e.const /\ e.value > 0 /\ RLt(R(e.value), in))
             => memo[i].rows = R(e.value)

\* LIMIT 0 over an input of two rows reports two rows, and LIMIT 1 over it
\* reports one
LimitRowCountWitness ==
  \E i, j \in NodesOf({"limit"}) :
    /\ memo[i].left = j
    /\ memo[j].limit = [const |-> TRUE, value |-> 0]
    /\ memo[memo[j].left].rows = R(2)
    /\ memo[j].rows = R(2)
    /\ memo[i].limit = [const |-> TRUE, value |-> 1]
    /\ memo[i].rows = R(1)

\* C14: the row count of every Scan node is the row count of its table's
\* statistics, and for every column set of a Scan node that a statistics
\* record of the table names exactly, the distinct count is that record's.
ExactMatchStat ==
  \A i \in NodesOf({"scan"}) :
    /\ \A r \in memo[i].recs : memo[i].rows = R(r.row_count)
    /\ \A S \in (SUBSET memo[i].cols) \ {{}} :
         \A r \in memo[i].recs :
           r.columns = NamesOf(memo[i].table, memo[i].base, S)
             => DeriveColStat(memo, i, S).distinct = R(r.distinct_count)

\* scan a with the statistic of (y, s): 1000 distinct values as injected,
\* where the single-column counts 400 and 10 multiply to 4000, of 5000 rows
ExactMatchStatWitness ==
  \E i \in NodesOf({"scan"}) :
    \E S \in Present(i) :
      /\ NamesOf(memo[i].table, memo[i].base, S) = {"y", "s"}
      /\ memo[i].stats[S].distinct = R(1000)
      /\ DistinctProduct(memo[i].recs, {"y", "s"}, 5000) = R(4000)
      /\ memo[i].rows = R(5000)

\* d is at most the product of the single-column distinct counts of ns
RECURSIVE AtMostProduct(_, _, _)
AtMostProduct(d, recs, ns) ==
  IF ns = {} THEN RLe(d, ROne)
  ELSE LET n  == CHOOSE x \in ns : TRUE
           dn == OneColumn(recs, n).distinct_count
       IN  IF dn = 0 THEN RLe(d, RZero)
           ELSE AtMostProduct(RDiv(d, R(dn)), recs, ns \ {n})

\* C15: for every set of two or more columns of a Scan node that no
\* statistics record names exactly, the distinct count is at most the product
\* of the columns' single-column distinct counts, at most the row count, and
\* at least every column's single-column distinct count.
CombinedDistinctBounds ==
  \A i \in NodesOf({"scan"}) :
    \A S \in SUBSET memo[i].cols :
      LET ns == NamesOf(memo[i].table, memo[i].base, S)
          st == DeriveColStat(memo, i, S)
      IN  (/\ Cardinality(S) >= 2
           /\ \A r \in memo[i].recs : r.columns # ns
           /\ st # NoStat)
            => /\ AtMostProduct(st.distinct, memo[i].recs, ns)
               /\ RLe(st.distinct, memo[i].rows)
               /\ \A n \in ns :
                    RLe(R(OneColumn(memo[i].recs, n).distinct_count), st.distinct)

\* scan b with the statistic of (x, z), not injected: 5000 and 100 distinct
\* values, of 10000 rows, combine to 10000
CombinedDistinctBoundsWitness ==
  \E i \in NodesOf({"scan"}) :
    \E S \in Present(i) :
      /\ NamesOf(memo[i].table, memo[i].base, S) = {"x", "z"}
      /\ \A r \in memo[i].recs : r.columns # {"x", "z"}
      /\ OneColumn(memo[i].recs, "x").distinct_count = 5000
      /\ OneColumn(memo[i].recs, "z").distinct_count = 100
      /\ memo[i].rows = R(10000)
      /\ memo[i].stats[S].distinct = R(10000)

\* the operators among the definitions read so far
Operators == {Catalog[k] : k \in {j \in 1..defined : "Private" \notin Catalog[j].tags}}
\* the join operators and their apply variants, by name
JoinNames ==
  {"InnerJoin", "LeftJoin", "RightJoin", "FullJoin", "SemiJoin", "AntiJoin"}
JoinApplyNames ==
  {"InnerJoinApply", "LeftJoinApply", "RightJoinApply", "FullJoinApply",
   "SemiJoinApply", "AntiJoinApply"}

\* C16: every operator read carries the tag Relational; an operator that
\* carries Join carries exactly one of JoinNonApply and JoinApply, JoinApply
\* exactly when it is an apply variant; once the file is read, the six joins
\* and their six apply variants are operators that carry Join, and a Join
\* pattern matches each of them.
JoinTags ==
  /\ \A d \in Operators :
       /\ "Relational" \in d.tags
       /\ "Join" \in d.tags =>
            /\ ("JoinApply" \in d.tags) # ("JoinNonApply" \in d.tags)
            /\ ("JoinApply" \in d.tags) <=> (d.name \in JoinApplyNames)
  /\ defined = Len(Catalog) =>
       \A n \in JoinNames \cup JoinApplyNames :
         \E d \in Operators : d.name = n /\ "Join" \in d.tags
  /\ (matched # <<>> /\ matched[1] = "Join"
        /\ matched[2] \in JoinNames \cup JoinApplyNames) => matched[3]

\* the whole file is read, and a Join pattern has matched AntiJoinApply
JoinTagsWitness ==
  /\ defined = Len(Catalog)
  /\ Cardinality({d \in Operators : "Join" \in d.tags}) = 12
  /\ matched = <<"Join", "AntiJoinApply", TRUE>>

\* C17: when PromptForPasswordTwice has returned, it returned the first
\* entry and no error if both reads succeeded, the first entry is not empty
\* and the entries are equal; otherwise it returned the empty string and an
\* error: the error of the read that failed, ErrEmptyPassword for an empty
\* first entry, "password mismatch" for entries that differ.
PromptTwiceResult ==
  prompt.pc = "done" =>
    LET n   == Len(prompt.reads)
        one == prompt.reads[1]
        two == prompt.reads[2]
        ok  == /\ n = 2
               /\ one.err = "" /\ two.err = ""
               /\ Len(one.bytes) > 0
               /\ one.bytes = two.bytes
    IN  /\ (prompt.err = "") <=> ok
        /\ ok => prompt.ret = one.bytes
        /\ ~ok =>
             /\ prompt.ret = <<>>
             /\ prompt.err # ""
             /\ prompt.err =
                  IF one.err # "" THEN one.err
                  ELSE IF Len(one.bytes) = 0 THEN ErrEmptyPassword
                  ELSE IF two.err # "" THEN two.err
                  ELSE "password mismatch"

\* the call has returned "password mismatch" for two entries of the same
\* length that differ
PromptTwiceResultWitness ==
  /\ prompt.pc = "done"
  /\ Len(prompt.reads) = 2
  /\ prompt.reads[1].err = "" /\ prompt.reads[2].err = ""
  /\ Len(prompt.reads[1].bytes) = Len(prompt.reads[2].bytes)
  /\ prompt.reads[1].bytes # prompt.reads[2].bytes
  /\ prompt.ret = <<>>
  /\ prompt.err = "password mismatch"

\* C18: when CompareHashAndPassword(h, q) has returned for a hash h that
\* HashPassword(p) returned, it returned nil if q is p and an error if q
\* differs from p.
HashCompareAgrees ==
  hashed.pc = "compared" => ((hashed.cerr = "") <=> (hashed.q = hashed.p))

\* the scans among the nodes that the second derivation visited read the
\* statistics that the store still holds
SameStore ==
  \A k \in 1..Len(again.second) :
    (again.second[k].op = "scan") => (memo[k].recs = tableStats[memo[k].table])

FromSnapshot(th, s) ==
  LET tr == threads[th].memo
      d  == Visit(s, tr, NoneVisited(Len(tr)), Len(tr))
  IN  \A k \in 1..Len(tr) :
        /\ (tr[k].op = "scan") => (tr[k].recs = s[tr[k].table])
        /\ (d[k].op # "unvisited") =>
             /\ d[k].rows = tr[k].rows
             /\ \A S \in DOMAIN tr[k].stats :
                  DeriveColStat(d, k, S) = tr[k].stats[S]

\* all the statistics in the tree of a planning thread are of the one
\* snapshot it holds, which is one the store held
OneSnapshot ==
  \A th \in Threads :
    (threads[th].pc = "planning") =>
      /\ threads[th].snap \in Snapshots
      /\ FromSnapshot(th, threads[th].snap)

\* a step that changes a thread's state changes that of no other thread and
\* leaves the store as it is; a step that changes the store changes no thread
OwnWrites ==
  /\ (threads' # threads) => (tableStats' = tableStats)
  /\ \A th \in Threads, other \in Threads :
       (threads'[th] # threads[th] /\ other # th) => (threads'[other] = threads[other])

\* C20: with planning threads deriving their own trees while the statistics
\* store is refreshed by replacing it as a whole, the statistics in a
\* thread's tree are always those of one single snapshot, never a mix of
\* two, and no step of a derivation changes the store or another thread's
\* tree.
ThreadsIsolated == []OneSnapshot /\ [][OwnWrites]_vars

\* the store was refreshed while two threads were planning: one holds the
\* first snapshot, the other the bumped one, both have combined b and c
\* (whose statistics the two snapshots give differently) and hold a
\* requested statistic
ThreadsIsolatedWitness ==
  \E th \in Threads, other \in Threads :
    /\ threads[th].pc = "planning"
    /\ threads[other].pc = "planning"
    /\ threads[th].snap = InjectedFirst
    /\ threads[other].snap = InjectedBumped
    /\ tableStats = InjectedBumped
    /\ Len(threads[th].memo) = 3
    /\ Len(threads[other].memo) = 3
    /\ threads[th].memo[1].table = "b"
    /\ threads[other].memo[1].table = "b"
    /\ threads[th].memo[1].recs # threads[other].memo[1].recs
    /\ threads[th].memo[3].op = "union"
    /\ threads[other].memo[3].op = "union"
    /\ \E S \in DOMAIN threads[th].memo[3].stats \cap DOMAIN threads[other].memo[3].stats :
         threads[th].memo[3].stats[S] # threads[other].memo[3].stats[S]

\* C21: every IntersectAll node has the smaller of its inputs' row counts
\* as its row count, and every statistic present on it has as its null
\* count the smaller of the null counts that the inputs hold for the
\* corresponding columns.
IntersectAllNullCount ==
  \A i \in NodesOf({"intersect-all"}) :
    /\ memo[i].rows = RMin(LeftRows(i), RightRows(i))
    /\ \A S \in Present(i) :
         memo[i].stats[S].null = RMin(LeftStat(i, S).null, RightStat(i, S).null)

\* SELECT x, s FROM b INTERSECT ALL SELECT x, s FROM c with the bumped null
\* counts: null(1) is 1000, the right input's, against 2500 on the left, and
\* null(1,3) is 6250, the left input's, against 7750 on the right
IntersectAllNullCountWitness ==
  \E i \in NodesOf({"intersect-all"}) :
    /\ memo[i].rows = R(10000)
    /\ \E S \in Present(i), T \in Present(i) :
         /\ LeftStat(i, S).null = R(2500)
         /\ RightStat(i, S).null = R(1000)
         /\ memo[i].stats[S].null = R(1000)
         /\ LeftStat(i, T).null = R(6250)
         /\ RightStat(i, T).null = R(7750)
         /\ memo[i].stats[T].null = R(6250)

\* the bag operators that the left input bounds
LeftBagOps == {"intersect-all", "except-all"}

\* C22, as claimed: on every IntersectAll and ExceptAll node, every key of
\* the left input over output columns is a key of the node, and the left
\* input's functional dependencies are the node's.
LeftKeysCarried ==
  \A i \in NodesOf(LeftBagOps) :
    /\ \A K \in memo[memo[i].left].keys :
         (K \subseteq memo[i].cols) => (K \in memo[i].keys)
    /\ memo[i].fds = memo[memo[i].left].fds

\* C22, amended: no IntersectAll or ExceptAll node reports a key or a
\* functional dependency, whatever keys and dependencies its left input
\* has.
LeftKeysDropped ==
  \A i \in NodesOf(LeftBagOps) :
    /\ memo[i].keys = {}
    /\ memo[i].fds = {}

\* SELECT x, y, x FROM a INTERSECT ALL ... (or EXCEPT ALL): the left input
\* is a project with the key (1) and the dependency (1)-->(2), both over
\* output columns, and the node has neither
LeftKeysDroppedWitness ==
  \E i \in NodesOf(LeftBagOps) :
    /\ memo[memo[i].left].op = "project"
    /\ memo[memo[i].left].keys = {{1}}
    /\ memo[memo[i].left].fds = {<<{1}, {2}>>}
    /\ memo[i].cols = {1, 2}
    /\ Len(memo[i].ocols) = 3
    /\ memo[i].keys = {}
    /\ memo[i].fds = {}

ProjectPassthrough ==
  \A i \in NodesOf({"project"}) :
    /\ memo[i].rows = memo[memo[i].left].rows
    /\ memo[i].cols \subseteq memo[memo[i].left].cols
    /\ \A S \in (SUBSET memo[i].cols) \ {{}} :
         DeriveColStat(memo, i, S) = DeriveColStat(memo, memo[i].left, S)
    /\ \A S \in Present(i) :
         /\ S \in Present(memo[i].left)
         /\ memo[i].stats[S] = memo[memo[i].left].stats[S]
    /\ memo[i].notnull = memo[memo[i].left].notnull \cap memo[i].cols
    /\ \A fd \in memo[memo[i].left].fds :
         (fd[1] = {} /\ fd[2] \cap memo[i].cols # {})
           => (<<{}, fd[2] \cap memo[i].cols>> \in memo[i].fds)

\* a Project over the select b.x = 1 that drops columns: the constant
\* column 4 is kept, not null and constant, and the Project holds the
\* select's statistic of a column set
ProjectPassthroughWitness ==
  \E i \in NodesOf({"project"}) :
    /\ memo[memo[i].left].op = "select"
    /\ memo[i].cols # memo[memo[i].left].cols
    /\ memo[i].rows = R(2)
    /\ 4 \in memo[i].notnull
    /\ <<{}, {4}>> \in memo[i].fds
    /\ memo[memo[i].left].notnull \ memo[i].cols # {}
    /\ \E S \in Present(i) :
         /\ memo[i].stats[S] = memo[memo[i].left].stats[S]
         /\ RLt(RZero, memo[i].stats[S].distinct)

\* the null count an input of a duplicate-discarding set operator gives to a
\* statistic of several output columns: the input's null count rescaled by
\* (distinct + 1) / rows
Rescaled(st, rows) ==
  IF rows = RZero THEN RZero
  ELSE RMul(RDiv(RAdd(st.distinct, ROne), rows), st.null)

\* the null count of the output columns S in the statistics of the UnionAll
\* of the inputs of set node i, and that UnionAll's row count
UnionAllNulls(i, S) == RAdd(LeftStat(i, S).null, RightStat(i, S).null)
UnionAllRows(i) == RAdd(LeftRows(i), RightRows(i))

\* C25, as claimed: the null count of S of a Union is the null fraction of S
\* in the UnionAll of its inputs times the Union's distinct count of S, and
\* is not the sum of the inputs' null counts
UnionNullFraction ==
  \A i \in NodesOf({"union"}) :
    \A S \in Present(i) :
      /\ UnionAllRows(i) # RZero
      /\ memo[i].stats[S].null =
           RMul(RDiv(UnionAllNulls(i, S), UnionAllRows(i)), memo[i].stats[S].distinct)
      /\ memo[i].stats[S].null # UnionAllNulls(i, S)

\* C25: the null count of S of a Union with several output columns is the sum
\* over both inputs of the input's null count rescaled by (distinct + 1) /
\* rows of that input, and of a Union with one output column the sum over
\* both inputs of the smaller of 1 and the input's null count; either is
\* capped by the Union's row count
UnionNullRescaled ==
  \A i \in NodesOf({"union"}) :
    \A S \in Present(i) :
      memo[i].stats[S].null =
        RMin(IF Cardinality(memo[i].cols) = 1
               THEN RAdd(RMin(ROne, LeftStat(i, S).null),
                         RMin(ROne, RightStat(i, S).null))
               ELSE RAdd(Rescaled(LeftStat(i, S), LeftRows(i)),
                         Rescaled(RightStat(i, S), RightRows(i))),
             memo[i].rows)

\* SELECT x, s FROM b UNION SELECT x, s FROM c: the inputs have 2500 and
\* 1000 nulls of x in 10000 rows each, the Union 20000 rows, 10000 distinct
\* values of x and 1750.35 nulls of x, where the null fraction of the
\* UnionAll gives 1750; and its 14001.4 nulls of (x, s) exceed the 14000 of
\* the inputs together
UnionNullRescaledWitness ==
  \E i \in NodesOf({"union"}) :
    /\ memo[i].rows = R(20000)
    /\ \E S \in Present(i), T \in Present(i) :
         /\ LeftStat(i, S).null = R(2500)
         /\ RightStat(i, S).null = R(1000)
         /\ memo[i].stats[S] = [distinct |-> R(10000), null |-> <<35007, 20>>]
         /\ UnionAllNulls(i, T) = R(14000)
         /\ memo[i].stats[T].null = <<70007, 5>>

\* the operators that discard duplicate rows
DistinctOps == SetOps \ AllOps

\* C26: a set operator that discards duplicates and has a single output
\* column holds at most 1 null of that column when it is an Intersect or an
\* Except, and at most 2 when it is a Union
SingleColumnNulls ==
  \A i \in NodesOf(DistinctOps) :
    Cardinality(memo[i].cols) = 1 =>
      \A S \in Present(i) :
        RLe(memo[i].stats[S].null,
            IF memo[i].op = "union" THEN R(2) ELSE ROne)

\* SELECT x FROM b UNION / INTERSECT / EXCEPT SELECT x FROM c: the inputs
\* hold 2500 and 1000 nulls of x, the Union 2 and the others 1
SingleColumnNullsWitness ==
  \E i \in NodesOf(DistinctOps) :
    /\ Cardinality(memo[i].cols) = 1
    /\ \E S \in Present(i) :
         /\ LeftStat(i, S).null = R(2500)
         /\ RightStat(i, S).null = R(1000)
         /\ memo[i].stats[S].null = (IF memo[i].op = "union" THEN R(2) ELSE ROne)

\* C27: an output column of a Union or a UnionAll is not null exactly when
\* the left and the right input column at its position are both not null
UnionNotNull ==
  \A i \in NodesOf({"union", "union-all"}) :
    /\ memo[i].notnull \subseteq memo[i].cols
    /\ \A k \in 1..Len(memo[i].ocols) :
         (memo[i].ocols[k] \in memo[i].notnull)
           <=> /\ memo[i].lcols[k] \in memo[memo[i].left].notnull
               /\ memo[i].rcols[k] \in memo[memo[i].right].notnull

\* SELECT *, x FROM a UNION [ALL] SELECT *, rowid FROM b: the first output
\* column has a not-null left and a nullable right column and is nullable,
\* the second a nullable left and a not-null right column and is nullable,
\* the fourth two not-null columns and is not null
UnionNotNullWitness ==
  \E i \in NodesOf({"union", "union-all"}) :
    LET n == memo[i]
    IN  /\ Len(n.ocols) = 4
        /\ n.lcols[1] \in memo[n.left].notnull
        /\ n.rcols[1] \notin memo[n.right].notnull
        /\ n.lcols[2] \notin memo[n.left].notnull
        /\ n.rcols[2] \in memo[n.right].notnull
        /\ n.lcols[4] \in memo[n.left].notnull
        /\ n.rcols[4] \in memo[n.right].notnull
        /\ n.notnull = {n.ocols[4]}

\* the columns of the nodes built before node i
EarlierColumns(i) == UNION {memo[j].cols : j \in 1..(i - 1)}

\* a list without a repeated column
Injective(list) == Cardinality(ToSet(list)) = Len(list)

\* C28: the left, right and output column lists of a set node have one
\* length and match by position, the left and right lists holding columns of
\* the left and right input; Union and UnionAll put out synthesized columns,
\* all different and none a column of an earlier node; the other operators
\* put out their left list
SetPrivateLists ==
  \A i \in NodesOf(SetOps) :
    LET n == memo[i]
    IN  /\ Len(n.lcols) = Len(n.ocols)
        /\ Len(n.rcols) = Len(n.ocols)
        /\ ToSet(n.lcols) \subseteq memo[n.left].cols
        /\ ToSet(n.rcols) \subseteq memo[n.right].cols
        /\ n.cols = ToSet(n.ocols)
        /\ IF n.op \in {"union", "union-all"}
             THEN /\ Injective(n.ocols)
                  /\ ToSet(n.ocols) \cap EarlierColumns(i) = {}
             ELSE n.ocols = n.lcols

\* SELECT *, x FROM a UNION SELECT *, rowid FROM b: the left list <<1, 2, 3,
\* 1>> repeats a column and the output is <<8, 9, 10, 11>>
SetPrivateListsWitness ==
  \E i \in NodesOf({"union"}) :
    /\ memo[i].lcols = <<1, 2, 3, 1>>
    /\ memo[i].rcols = <<4, 5, 6, 7>>
    /\ memo[i].ocols = <<8, 9, 10, 11>>

PrintedOne == <<"Enter password: ">>
PrintedTwo == <<"Enter password: ", "\nConfirm password: ">>
PrintedAll == <<"Enter password: ", "\nConfirm password: ", "\n">>

\* the first read succeeded with an entry that is not empty
FirstEntered ==
  /\ Len(prompt.reads) >= 1
  /\ prompt.reads[1].err = ""
  /\ prompt.reads[1].bytes # <<>>

\* where PromptForPasswordTwice stands, with what it printed and read so far
PromptPosition ==
  /\ prompt.pc = "idle" => prompt.out = <<>> /\ prompt.reads = <<>>
  /\ prompt.pc = "read one" => prompt.out = PrintedOne /\ prompt.reads = <<>>
  /\ prompt.pc = "read two" =>
       /\ prompt.out = PrintedTwo
       /\ Len(prompt.reads) = 1
       /\ FirstEntered
  /\ prompt.pc = "done" =>
       /\ Len(prompt.reads) \in {1, 2}
       /\ Len(prompt.reads) = 1 =>
            /\ ~FirstEntered
            /\ prompt.out = PrintedOne
            /\ prompt.ret = <<>>
            /\ prompt.err = (IF prompt.reads[1].err # "" THEN prompt.reads[1].err
                             ELSE ErrEmptyPassword)
       /\ Len(prompt.reads) = 2 =>
            /\ FirstEntered
            /\ IF prompt.reads[2].err # ""
                 THEN /\ prompt.out = PrintedTwo
                      /\ prompt.ret = <<>>
                      /\ prompt.err = prompt.reads[2].err
                      /\ prompt.err # "password mismatch"
                 ELSE /\ prompt.out = PrintedAll
                      /\ prompt.err \in {"", "password mismatch"}
                      /\ (prompt.err = "") <=>
                           (prompt.reads[1].bytes = prompt.reads[2].bytes)

\* a step of PromptForPasswordTwice: the call prints the first prompt, the
\* first read follows it and the second read follows the first
PromptStep ==
  \/ /\ prompt.pc \in {"idle", "done"}
     /\ prompt'.pc = "read one"
  \/ /\ prompt.pc = "read one"
     /\ prompt'.pc \in {"read two", "done"}
     /\ Len(prompt'.reads) = 1
  \/ /\ prompt.pc = "read two"
     /\ prompt'.pc = "done"
     /\ Len(prompt'.reads) = 2
     /\ prompt'.reads[1] = prompt.reads[1]

\* C30: PromptForPasswordTwice prints the first prompt, reads, checks the
\* read's error and then the entry for emptiness, prints the confirm prompt,
\* reads again and compares, in this order; it returns after a first read
\* that failed or was empty with the first prompt alone printed and one
\* read done, and after a failed second read with that read's error and no
\* result of a comparison
PromptOrder == []PromptPosition /\ [][PromptStep]_vars

\* both reads gave the same bytes, the second with an error: the error is
\* returned and not the password
PromptOrderWitness ==
  /\ prompt.pc = "done"
  /\ Len(prompt.reads) = 2
  /\ prompt.reads[2].err # ""
  /\ prompt.reads[2].bytes = prompt.reads[1].bytes
  /\ prompt.ret = <<>>
  /\ prompt.out = PrintedTwo

====
